---- MODULE Spec2Model ----
(***************************************************************************)
(* A model of the annotation graph of whats-wrong-python: Token, Edge,     *)
(* NLPInstance (src/nlp_model/nlp_instance.py, src/nlp_model/edge.py) and  *)
(* the diff of two instances (nlp_diff).                                   *)
(*                                                                         *)
(* Python values are represented as follows.                               *)
(*   str          a sequence of one-character strings, "dep" is            *)
(*                <<"d","e","p">>, so that + is \o and the characters can  *)
(*                be inspected;                                            *)
(*   None         (where a str is expected) the one-element sequence       *)
(*                <<"None">>, which is no str because its element is not   *)
(*                one character;                                           *)
(*   enum members TLA+ strings ("span", "dependency", "single", ...);      *)
(*   list, tuple  sequences;  dict  a function on its set of keys;         *)
(*   set          a set of representatives, no two of them __eq__-equal.   *)
(***************************************************************************)
EXTENDS Integers, Sequences, FiniteSets, TLC

VARIABLES
    inst,     \* the NLPInstance under construction
    last,     \* the last call made on inst: its name, arguments and outcome
    gold,     \* nlp_diff's gold_instance
    guess,    \* nlp_diff's guess_instance
    diff,     \* the outcome of the call nlp_diff(gold, guess)
    ea,       \* an Edge,
    eb,       \* another Edge,
    cmp,      \* and the outcome of comparing, hashing and collecting them
    ec,       \* a third Edge, where three are related
    held,     \* the frozenset a get_edges call returned, kept by its caller
    layout,   \* the outcome of laying out the dependency edges of inst
    panel,    \* the filters and the canvas a DependencyFilterPanel controls
    navigator \* a CorpusNavigator, its spinner and its canvas

vars == <<inst, last, gold, guess, diff, ea, eb, cmp, ec, held, layout, panel,
         navigator>>
buildVars == <<inst, last>>
diffVars == <<gold, guess, diff>>
edgeVars == <<ea, eb, cmp>>
useVars == <<ec, held, layout>>
guiVars == <<panel, navigator>>

(***************************************************************************)
(* Bounds of the model.                                                    *)
(***************************************************************************)
MaxTokens == 2       \* the tokens list is never grown beyond this length
MaxEdges == 1        \* nor the edges list of the instance under construction
MaxSplits == 1       \* nor its split_points list
MaxDiffEdges == 2    \* length of the edges lists of nlp_diff's two inputs
HashRange == 5       \* hash(str) takes its values in 0..HashRange-1

\* the token indices passed to the operations
Idx == {0, 1}

(***************************************************************************)
(* Python values.                                                          *)
(***************************************************************************)
None == <<"None">>
NoIndex == 0 - 1                     \* an optional int argument left out
NoValue == [none |-> TRUE]           \* a call that returned nothing
NoError == "-"
KeyError == "KeyError"
TypeError == "TypeError"

DEP == <<"d", "e", "p">>
ROLE == <<"r", "o", "l", "e">>
FN == <<":", "F", "N">>
FP == <<":", "F", "P">>
MATCH == <<":", "M", "a", "t", "c", "h">>
LabelA == <<"A">>
LabelB == <<"B">>
NoteN == <<"n">>
DescD == <<"d">>
DescE == <<"e">>

\* class RenderType, class EdgeRenderType
RenderType_single == "single"
RenderType_alignment == "alignment"
EdgeRenderType_span == "span"
EdgeRenderType_dependency == "dependency"
NoRenderType == "None"

(***************************************************************************)
(* Token (nlp_model/token.py): an index, the is_actual flag and the        *)
(* properties added to it.  Tokens are equal, ordered and hashed by index. *)
(***************************************************************************)
Token(index, is_actual) ==
    [index |-> index, is_actual |-> is_actual, properties |-> {}]

Token_add_property(token, prop) ==
    [token EXCEPT !.properties = @ \cup {prop}]

Token_eq(s, t) == s.index = t.index

Token_hash(t) == t.index

(***************************************************************************)
(* Edge.__init__                                                           *)
(***************************************************************************)
Edge(start, end, label, edge_type, note, render_type, description, is_final) ==
    [start |-> start, end |-> end, label |-> label, edge_type |-> edge_type,
     note |-> note, render_type |-> render_type, description |-> description,
     is_final |-> is_final]

(***************************************************************************)
(* NLPInstance.__init__: the passed collections are copied; token_map is   *)
(* filled from tokens in order, a later token replacing an earlier one of  *)
(* the same index.  A None argument is the empty sequence here (both leave *)
(* the attribute empty).                                                   *)
(***************************************************************************)
RECURSIVE MapTokens(_, _)
MapTokens(token_map, tokens) ==
    IF tokens = <<>> THEN token_map
    ELSE LET t == Head(tokens)
             m == [i \in DOMAIN token_map \cup {t.index} |->
                       IF i = t.index THEN t ELSE token_map[i]]
         IN MapTokens(m, Tail(tokens))

EmptyMap == [i \in {} |-> Token(0, FALSE)]

NLPInstance(tokens, edges, render_type, split_points) ==
    [tokens |-> tokens,
     token_map |-> MapTokens(EmptyMap, tokens),
     edges |-> edges,
     render_type |-> render_type,
     split_points |-> split_points]

\* the outcome of a method call: the instance after it, what it raised and
\* what it returned
Outcome(self, raised, ret) == [self |-> self, raised |-> raised, ret |-> ret]

(***************************************************************************)
(* NLPInstance.is_valid_edge, add_edge, add_span, add_dependency           *)
(***************************************************************************)
is_valid_edge(self, start, end) ==
    start \in DOMAIN self.token_map /\ end \in DOMAIN self.token_map

\* add_edge without the check of its endpoints: a token is made up for an
\* index that has none
add_edge_unchecked(self, start, end, label, edge_type, render_type, desc, note, is_final) ==
    LET At(i) == IF i \in DOMAIN self.token_map THEN self.token_map[i]
                 ELSE Token(i, FALSE)
    IN Outcome([self EXCEPT !.edges =
                   Append(@, Edge(At(start), At(end), label, edge_type, note,
                                  render_type, desc, is_final))],
               NoError, NoValue)

add_edge(self, start, end, label, edge_type, render_type, desc, note, is_final) ==
    IF is_valid_edge(self, start, end)
    THEN Outcome([self EXCEPT !.edges =
                     Append(@, Edge(self.token_map[start], self.token_map[end],
                                    label, edge_type, note, render_type, desc,
                                    is_final))],
                 NoError, NoValue)
    ELSE Outcome(self, KeyError, NoValue)

add_span(self, start, end, label, span_type, desc) ==
    IF is_valid_edge(self, start, end)
    THEN Outcome([self EXCEPT !.edges =
                     Append(@, Edge(self.token_map[start], self.token_map[end],
                                    label, span_type, None, EdgeRenderType_span,
                                    desc, TRUE))],
                 NoError, NoValue)
    ELSE Outcome(self, KeyError, NoValue)

add_dependency(self, start, end, label, dep_type, desc, is_final) ==
    IF is_valid_edge(self, start, end)
    THEN Outcome([self EXCEPT !.edges =
                     Append(@, Edge(self.token_map[start], self.token_map[end],
                                    label, dep_type, None,
                                    EdgeRenderType_dependency, desc, is_final))],
                 NoError, NoValue)
    ELSE Outcome(self, KeyError, NoValue)

(***************************************************************************)
(* NLPInstance.add_tokens, add_edges, add_token_with_properties,           *)
(* add_token, consistify, add_split_point                                  *)
(***************************************************************************)
add_tokens(self, tokens) ==
    Outcome([self EXCEPT !.tokens = @ \o tokens,
                         !.token_map = MapTokens(@, tokens)],
            NoError, NoValue)

add_edges(self, edges) ==
    Outcome([self EXCEPT !.edges = @ \o edges], NoError, NoValue)

add_token_with_properties(self, properties) ==
    LET token == [Token(Len(self.tokens), FALSE) EXCEPT !.properties = properties]
    IN Outcome([self EXCEPT !.tokens = Append(@, token),
                            !.token_map = MapTokens(@, <<token>>)],
               NoError, NoValue)

\* index = NoIndex stands for the call without index
add_token(self, index, is_actual) ==
    IF index = NoIndex
    THEN LET vertex == Token(Len(self.tokens), is_actual)
         IN Outcome([self EXCEPT !.tokens = Append(@, vertex),
                                 !.token_map = MapTokens(@, <<vertex>>)],
                    NoError, vertex)
    ELSE IF index \notin DOMAIN self.token_map
         THEN Outcome(self, KeyError, NoValue)   \* self.token_map[index]
         ELSE Outcome(self, NoError, self.token_map[index])

\* the values of a dict, here in ascending order of their keys (the sort of
\* consistify makes the order immaterial: the values have distinct indices)
RECURSIVE MapValues(_, _)
MapValues(token_map, keys) ==
    IF keys = {} THEN <<>>
    ELSE LET k == CHOOSE x \in keys : \A y \in keys : x <= y
         IN <<token_map[k]>> \o MapValues(token_map, keys \ {k})

\* list.sort() with Token's order: stable, ascending by index
RECURSIVE SortTokens(_, _)
SortTokens(tokens, indices) ==
    IF indices = {} THEN <<>>
    ELSE LET k == CHOOSE x \in indices : \A y \in indices : x <= y
             IsK(t) == t.index = k
         IN SelectSeq(tokens, IsK) \o SortTokens(tokens, indices \ {k})

consistify(self) ==
    LET extended == self.tokens \o MapValues(self.token_map, DOMAIN self.token_map)
        indices == {extended[i].index : i \in DOMAIN extended}
    IN Outcome([self EXCEPT !.tokens = SortTokens(extended, indices)],
               NoError, NoValue)

add_split_point(self, token_index) ==
    Outcome([self EXCEPT !.split_points = Append(@, token_index)],
            NoError, NoValue)

(***************************************************************************)
(* NLPInstance.merge.  nlp.tokens and nlp.edges are lists, and the method  *)
(* calls them: the first loop, when it runs at all, raises TypeError as it *)
(* evaluates the argument nlp.tokens(0), before Token.merge is entered;    *)
(* otherwise the head of the second loop raises it, evaluating             *)
(* nlp.edges().  Nothing has been assigned by then.                        *)
(***************************************************************************)
min(a, b) == IF a <= b THEN a ELSE b

merge(self, nlp) ==
    IF min(Len(self.tokens), Len(nlp.tokens)) > 0
    THEN Outcome(self, TypeError, NoValue)   \* nlp.tokens(i)
    ELSE Outcome(self, TypeError, NoValue)   \* nlp.edges()

(***************************************************************************)
(* The construction of one instance: the constructor, then any sequence of *)
(* the construction methods, each with arguments from a small set.         *)
(***************************************************************************)
NoDescription ==
    <<"N", "o", " ", "D", "e", "s", "c", "r", "i", "p", "t", "i", "o", "n">>

\* an Edge built by the caller, with Edge.__init__'s defaults, between two
\* tokens of the caller's own
CallerEdge(i, j) ==
    Edge(Token(i, FALSE), Token(j, FALSE), LabelA, DEP, None,
         EdgeRenderType_dependency, NoDescription, TRUE)

TokenTuples ==
    {<<Token(i, TRUE)>> : i \in Idx} \cup {<<Token(1, FALSE), Token(0, FALSE)>>}

EdgeLists == {<<CallerEdge(0, 1)>>}

\* (edge_type, render_type, note) of the add_edge calls: the defaults, and
\* one call with every argument given
AddEdgeArgs ==
    {<<None, NoRenderType, None>>, <<ROLE, EdgeRenderType_dependency, NoteN>>}

Call(op, start, end, index, outcome) ==
    [op |-> op, start |-> start, end |-> end, index |-> index,
     raised |-> outcome.raised, ret |-> outcome.ret]

Idle == [idle |-> TRUE]

BuildInit ==
    /\ \E tokens \in {<<>>, <<Token(0, FALSE)>>}, edges \in {<<>>} \cup EdgeLists :
          inst = NLPInstance(tokens, edges, RenderType_single, <<>>)
    /\ last = Call("__init__", NoIndex, NoIndex, NoIndex,
                   Outcome(Idle, NoError, NoValue))

Init ==
    /\ BuildInit
    /\ gold = Idle /\ guess = Idle /\ diff = Idle
    /\ ea = Idle /\ eb = Idle /\ cmp = Idle
    /\ ec = Idle /\ held = Idle /\ layout = Idle
    /\ panel = Idle /\ navigator = Idle

\* one call on inst; the lists are kept within the bounds of the model
Do(op, start, end, index, outcome) ==
    /\ Len(outcome.self.tokens) <= MaxTokens
    /\ Len(outcome.self.edges) <= MaxEdges
    /\ Len(outcome.self.split_points) <= MaxSplits
    /\ inst' = outcome.self
    /\ last' = Call(op, start, end, index, outcome)
    /\ UNCHANGED <<guiVars, diffVars, edgeVars, useVars>>

AddEdge ==
    \E start \in Idx, end \in Idx, a \in AddEdgeArgs :
          Do("add_edge", start, end, NoIndex,
             add_edge(inst, start, end, LabelA, a[1], a[2], None, a[3], TRUE))

AddSpan ==
    \E start \in Idx, end \in Idx :
          Do("add_span", start, end, NoIndex,
             add_span(inst, start, end, LabelA, DEP, None))

AddDependency ==
    \E start \in Idx, end \in Idx :
          Do("add_dependency", start, end, NoIndex,
             add_dependency(inst, start, end, LabelA, DEP, None, TRUE))

AddTokens ==
    \E tokens \in TokenTuples :
       Do("add_tokens", NoIndex, NoIndex, NoIndex, add_tokens(inst, tokens))

AddEdges ==
    \E edges \in EdgeLists :
       Do("add_edges", NoIndex, NoIndex, NoIndex, add_edges(inst, edges))

AddTokenWithProperties ==
    Do("add_token_with_properties", NoIndex, NoIndex, NoIndex,
          add_token_with_properties(inst, {"Word"}))

AddToken ==
    \E index \in Idx \cup {NoIndex} :
       Do("add_token", NoIndex, NoIndex, index,
             add_token(inst, index, FALSE))

Consistify ==
    Do("consistify", NoIndex, NoIndex, NoIndex, consistify(inst))

AddSplitPoint ==
    \E token_index \in {1} :
          Do("add_split_point", NoIndex, NoIndex, token_index,
             add_split_point(inst, token_index))

Next ==
    \/ AddEdge
    \/ AddSpan
    \/ AddDependency
    \/ AddTokens
    \/ AddEdges
    \/ AddTokenWithProperties
    \/ AddToken
    \/ Consistify
    \/ AddSplitPoint

Spec == Init /\ [][Next]_vars

(***************************************************************************)
(* Edge.__eq__ and Edge.__hash__.  hash(str) is a function of the string's *)
(* characters with values in 0..HashRange-1 (distinct strings may         *)
(* collide); a field that is None adds nothing to the hash.                *)
(***************************************************************************)
Edge_eq(self, other) ==
    /\ Token_eq(self.start, other.start)
    /\ Token_eq(self.end, other.end)
    /\ self.label = other.label
    /\ self.edge_type = other.edge_type
    /\ self.note = other.note

Alphabet ==
    <<":", " ", "A", "B", "D", "F", "M", "N", "P", "a", "c", "d", "e", "h", "i",
      "l", "n", "o", "p", "r", "s", "t">>

CharCodes == [c \in {Alphabet[i] : i \in DOMAIN Alphabet} |->
                 CHOOSE i \in DOMAIN Alphabet : Alphabet[i] = c]

CharCode(c) == CharCodes[c]

RECURSIVE str_hash(_)
str_hash(s) ==
    IF s = <<>> THEN 0
    ELSE (3 * str_hash(Tail(s)) + CharCode(Head(s))) % HashRange

\* a hash that also reads the description
Edge_hash_with_description(self) ==
    31 * (31 * Token_hash(self.start) + Token_hash(self.end))
       + (IF self.description # None THEN str_hash(self.description) ELSE 0)

Edge_hash(self) ==
    LET r1 == Token_hash(self.start) * 31
        r2 == (r1 + Token_hash(self.end)) * 31
        r3 == (r2 + (IF self.label # None THEN str_hash(self.label) ELSE 0)) * 31
        r4 == (r3 + (IF self.edge_type # None THEN str_hash(self.edge_type)
                     ELSE 0)) * 31
    IN r4 + (IF self.note # None THEN str_hash(self.note) ELSE 0)

(***************************************************************************)
(* Python's set and frozenset of edges: an element is in a set when the    *)
(* set holds an element of the same hash that is __eq__ to it; adding an   *)
(* element that is in the set changes nothing.                             *)
(***************************************************************************)
\* membership by comparing every attribute of the edges
set_contains_all_fields(s, e) == e \in s

set_contains(s, e) ==
    \E f \in s : Edge_hash(f) = Edge_hash(e) /\ Edge_eq(f, e)

set_add(s, e) == IF set_contains(s, e) THEN s ELSE s \cup {e}

RECURSIVE set_of(_)
set_of(list) ==
    IF list = <<>> THEN {}
    ELSE set_add(set_of(SubSeq(list, 1, Len(list) - 1)), list[Len(list)])

\* the difference with its operands exchanged
set_difference_swapped(s, other) == {e \in other : ~set_contains(s, e)}

set_difference(s, other) == {e \in s : ~set_contains(other, e)}

\* s & other keeps the elements of the smaller operand (of other when the
\* sizes are equal) that are in the larger one
set_intersection(s, other) ==
    IF Cardinality(other) > Cardinality(s)
    THEN {e \in s : set_contains(other, e)}
    ELSE {e \in other : set_contains(s, e)}

(***************************************************************************)
(* NLPInstance.get_edges: render_type = NoRenderType is the call without   *)
(* argument.                                                               *)
(***************************************************************************)
\* get_edges without the test of the render type
get_edges_of_any_type(self, render_type) ==
    set_of(self.edges)

get_edges(self, render_type) ==
    LET Wanted(e) == e.render_type = render_type \/ render_type = NoRenderType
    IN set_of(SelectSeq(self.edges, Wanted))

(***************************************************************************)
(* nlp_diff.  The three loops run over sets, in an order Python does not   *)
(* fix: fn_order, fp_order and match_order are the orders taken.  The      *)
(* outcome records the two inputs as the call leaves them, the three sets, *)
(* what was raised and the instance returned.                              *)
(***************************************************************************)
RECURSIVE add_split_points(_, _)
add_split_points(self, split_points) ==
    IF split_points = <<>> THEN self
    ELSE add_split_points(add_split_point(self, Head(split_points)).self,
                          Tail(split_points))

\* the loop, typing every edge as a false negative
RECURSIVE add_typed_as_fn(_, _, _)
add_typed_as_fn(sofar, edges, suffix) ==
    IF sofar.raised # NoError \/ edges = <<>> THEN sofar
    ELSE LET edge == Head(edges)
         IN IF edge.edge_type = None
            THEN Outcome(sofar.self, TypeError, NoValue)
            ELSE add_typed_as_fn(
                    add_edge(sofar.self, edge.start.index, edge.end.index,
                             edge.label, edge.edge_type \o FN, edge.render_type,
                             edge.description, edge.note, TRUE),
                    Tail(edges), suffix)

\* the loop, leaving out an edge that cannot be added
RECURSIVE add_typed_skipping(_, _, _)
add_typed_skipping(sofar, edges, suffix) ==
    IF edges = <<>> THEN sofar
    ELSE LET edge == Head(edges)
             ok == /\ edge.edge_type # None
                   /\ is_valid_edge(sofar.self, edge.start.index, edge.end.index)
         IN add_typed_skipping(
               IF ok
               THEN add_edge(sofar.self, edge.start.index, edge.end.index,
                             edge.label, edge.edge_type \o suffix,
                             edge.render_type, edge.description, edge.note, TRUE)
               ELSE sofar,
               Tail(edges), suffix)

\* one of the loops "for edge in ...: Type = edge.edge_type + suffix;
\* diff.add_edge(...)", from the outcome so far
RECURSIVE add_typed(_, _, _)
add_typed(sofar, edges, suffix) ==
    IF sofar.raised # NoError \/ edges = <<>> THEN sofar
    ELSE LET edge == Head(edges)
         IN IF edge.edge_type = None
            THEN Outcome(sofar.self, TypeError, NoValue)
            ELSE add_typed(add_edge(sofar.self, edge.start.index, edge.end.index,
                                    edge.label, edge.edge_type \o suffix,
                                    edge.render_type, edge.description,
                                    edge.note, TRUE),
                           Tail(edges), suffix)

nlp_diff_of(copied, gold_instance, guess_instance, fn_order, fp_order, match_order) ==
    LET diff0 == NLPInstance(<<>>, <<>>, RenderType_single, <<>>)
        diff1 == [diff0 EXCEPT !.render_type = copied.render_type]
        diff2 == add_split_points(diff1, copied.split_points)
        diff3 == add_tokens(diff2, copied.tokens).self
        goldIdentities == get_edges(gold_instance, NoRenderType)
        guessIdentities == get_edges(guess_instance, NoRenderType)
        fn == set_difference(goldIdentities, guessIdentities)
        fp == set_difference(guessIdentities, goldIdentities)
        matches == set_intersection(goldIdentities, guessIdentities)
        done == add_typed(add_typed(add_typed(Outcome(diff3, NoError, NoValue),
                                              fn_order, FN),
                                    fp_order, FP),
                          match_order, MATCH)
    IN [gold_instance |-> gold_instance, guess_instance |-> guess_instance,
        fn |-> fn, fp |-> fp, matches |-> matches,
        raised |-> done.raised,
        ret |-> IF done.raised = NoError THEN done.self ELSE NoValue]

\* nlp_diff with the guess's render type, split points and tokens copied
nlp_diff_copying_guess(gold_instance, guess_instance, fn_order, fp_order, match_order) ==
    nlp_diff_of(guess_instance, gold_instance, guess_instance, fn_order,
                fp_order, match_order)

nlp_diff(gold_instance, guess_instance, fn_order, fp_order, match_order) ==
    nlp_diff_of(gold_instance, gold_instance, guess_instance, fn_order,
                fp_order, match_order)

(***************************************************************************)
(* The diff of two instances.  The inputs are instances the constructor    *)
(* builds: one of two sentences, and at most MaxDiffEdges edges of a pool  *)
(* in which edges differ in one field or another.                          *)
(***************************************************************************)
Sentence(n) == [i \in 1..n |-> Token(i - 1, FALSE)]

Shapes ==
    {[tokens |-> Sentence(2), render_type |-> RenderType_single,
      split_points |-> <<>>],
     [tokens |-> Sentence(3), render_type |-> RenderType_alignment,
      split_points |-> <<1>>]}

T(i) == Token(i, FALSE)

EdgePool ==
    {Edge(T(0), T(1), LabelA, DEP, None, EdgeRenderType_dependency, DescD, TRUE),
     Edge(T(0), T(1), LabelA, DEP, None, EdgeRenderType_span, DescE, FALSE),
     Edge(T(0), T(1), LabelA, DEP, NoteN, EdgeRenderType_dependency, DescD, TRUE),
     Edge(T(0), T(2), LabelB, ROLE, None, EdgeRenderType_dependency, DescD, TRUE),
     Edge(T(1), T(0), LabelA, None, None, NoRenderType, None, TRUE)}

\* the lists of at most n different elements of S
ListsOf(S, n) ==
    UNION {{l \in [1..k -> S] : \A i, j \in 1..k : i # j => l[i] # l[j]} :
              k \in 0..n}

DiffInputs ==
    {NLPInstance(sh.tokens, edges, sh.render_type, sh.split_points) :
        sh \in Shapes, edges \in ListsOf(EdgePool, MaxDiffEdges)}

\* the orders in which a set can be iterated
Orders(s) ==
    {o \in [1..Cardinality(s) -> s] :
        \A i, j \in DOMAIN o : i # j => o[i] # o[j]}

InitDiff ==
    /\ gold \in DiffInputs
    /\ guess \in DiffInputs
    /\ diff = Idle
    /\ inst = Idle /\ last = Idle
    /\ ea = Idle /\ eb = Idle /\ cmp = Idle
    /\ ec = Idle /\ held = Idle /\ layout = Idle
    /\ panel = Idle /\ navigator = Idle

\* diff = nlp_diff(gold, guess), the loops taking any order
NlpDiff ==
    /\ diff = Idle
    /\ LET goldIdentities == get_edges(gold, NoRenderType)
           guessIdentities == get_edges(guess, NoRenderType)
       IN \E fn_order \in Orders(set_difference(goldIdentities, guessIdentities)),
             fp_order \in Orders(set_difference(guessIdentities, goldIdentities)),
             match_order \in Orders(set_intersection(goldIdentities,
                                                     guessIdentities)) :
             diff' = nlp_diff(gold, guess, fn_order, fp_order, match_order)
    /\ gold' = diff'.gold_instance
    /\ guess' = diff'.guess_instance
    /\ UNCHANGED <<guiVars, buildVars, edgeVars, useVars>>

NextDiff == NlpDiff

SpecDiff == InitDiff /\ [][NextDiff]_vars

(***************************************************************************)
(* Edge.get_type_prefix and Edge.get_type_postfix.  str.find gives the     *)
(* index, counted from 0, of the first occurrence, or -1.                  *)
(***************************************************************************)
find(s, c) ==
    IF \E i \in DOMAIN s : s[i] = c
    THEN (CHOOSE i \in DOMAIN s :
             s[i] = c /\ \A j \in DOMAIN s : s[j] = c => i <= j) - 1
    ELSE 0 - 1

get_type_prefix(self) ==
    LET index == find(self.edge_type, ":")
    IN IF index = 0 - 1 THEN self.edge_type
       ELSE SubSeq(self.edge_type, 1, index)

\* the postfix taken from the colon on
get_type_postfix_from_colon(self) ==
    LET index == find(self.edge_type, ":")
    IN IF index = 0 - 1 THEN <<>>
       ELSE SubSeq(self.edge_type, index + 1, Len(self.edge_type))

get_type_postfix(self) ==
    LET index == find(self.edge_type, ":")
    IN IF index = 0 - 1 THEN <<>>
       ELSE SubSeq(self.edge_type, index + 2, Len(self.edge_type))

(***************************************************************************)
(* The diff of two instances of one edge each, the types of the edges      *)
(* being the strings of "d" and ":" of at most MaxTypeLen characters: with *)
(* no, one or more colons, at the start, inside or at the end.             *)
(***************************************************************************)
MaxTypeLen == 3      \* length of the type of an edge

EdgeTypes == UNION {[1..n -> {"d", ":"}] : n \in 1..MaxTypeLen}

TypedInputs ==
    {NLPInstance(Sentence(2),
                 <<Edge(T(0), T(1), LabelA, edge_type, None,
                        EdgeRenderType_dependency, DescD, TRUE)>>,
                 RenderType_single, <<>>) : edge_type \in EdgeTypes}

InitType ==
    /\ gold \in TypedInputs
    /\ guess \in TypedInputs
    /\ diff = Idle
    /\ inst = Idle /\ last = Idle
    /\ ea = Idle /\ eb = Idle /\ cmp = Idle
    /\ ec = Idle /\ held = Idle /\ layout = Idle
    /\ panel = Idle /\ navigator = Idle

SpecType == InitType /\ [][NextDiff]_vars

(***************************************************************************)
(* Two edges compared, hashed and put into one set.  The edges are any two *)
(* of those built from two values of every attribute.                      *)
(***************************************************************************)
\* (render_type, description, is_final)
Presentations ==
    {<<EdgeRenderType_dependency, DescD, TRUE>>,
     <<EdgeRenderType_span, DescD, TRUE>>,
     <<EdgeRenderType_dependency, DescE, FALSE>>}

EdgeDomain ==
    {Edge(start, end, label, edge_type, note, p[1], p[2], p[3]) :
        start \in {Token(0, FALSE), Token(0, TRUE), Token(1, FALSE)},
        end \in {Token(0, FALSE), Token(1, FALSE)},
        label \in {LabelA, LabelB},
        edge_type \in {DEP, None},
        note \in {None, NoteN},
        p \in Presentations}

InitEdge ==
    /\ ea \in EdgeDomain
    /\ eb \in EdgeDomain
    /\ cmp = Idle
    /\ inst = Idle /\ last = Idle
    /\ gold = Idle /\ guess = Idle /\ diff = Idle
    /\ ec = Idle /\ held = Idle /\ layout = Idle
    /\ panel = Idle /\ navigator = Idle

\* ea == eb, hash(ea), hash(eb) and {ea, eb}
CompareEdges ==
    /\ cmp = Idle
    /\ cmp' = [eq |-> Edge_eq(ea, eb),
               hash_a |-> Edge_hash(ea),
               hash_b |-> Edge_hash(eb),
               both |-> set_add(set_add({}, ea), eb)]
    /\ UNCHANGED <<guiVars, ea, eb, buildVars, diffVars, useVars>>

NextEdge == CompareEdges

SpecEdge == InitEdge /\ [][NextEdge]_vars

(***************************************************************************)
(* The edges of an instance queried.  The instance is one the constructor  *)
(* builds over a sentence of two tokens; get_edges is called with each     *)
(* render type and without one, its caller keeps the frozenset returned,   *)
(* and edges are added to the instance in between.                         *)
(***************************************************************************)
MaxQueryEdges == 3   \* the edges list of a queried instance is not grown beyond

\* two edges that are equal but rendered differently, and one of every
\* other render type
QueryPool ==
    {Edge(T(0), T(1), LabelA, DEP, None, EdgeRenderType_dependency, DescD, TRUE),
     Edge(T(0), T(1), LabelA, DEP, None, EdgeRenderType_span, DescE, TRUE),
     Edge(T(1), T(0), LabelB, ROLE, None, EdgeRenderType_span, DescD, TRUE),
     Edge(T(1), T(1), LabelA, None, None, NoRenderType, None, TRUE)}

RenderTypeArgs == {NoRenderType, EdgeRenderType_span, EdgeRenderType_dependency}

InitQuery ==
    /\ \E edges \in ListsOf(QueryPool, 1) :
          inst = NLPInstance(Sentence(2), edges, RenderType_single, <<>>)
    /\ last = Call("__init__", NoIndex, NoIndex, NoIndex,
                   Outcome(Idle, NoError, NoValue))
    /\ held = Idle
    /\ gold = Idle /\ guess = Idle /\ diff = Idle
    /\ ea = Idle /\ eb = Idle /\ cmp = Idle
    /\ ec = Idle /\ layout = Idle
    /\ panel = Idle /\ navigator = Idle

\* a frozenset object
FrozenSet(elements) == [frozenset |-> elements]

\* held = inst.get_edges(render_type)
GetEdges ==
    \E render_type \in RenderTypeArgs :
       LET outcome == Outcome(inst, NoError,
                              FrozenSet(get_edges(inst, render_type)))
       IN /\ inst' = outcome.self
          /\ last' = Call("get_edges", NoIndex, NoIndex, NoIndex, outcome)
          /\ held' = [render_type |-> render_type, edges |-> outcome.ret]
          /\ UNCHANGED <<guiVars, diffVars, edgeVars, ec, layout>>

\* a call that adds edges to inst; the frozenset its caller holds is an
\* object of its own, which the call does not reach
DoAdd(op, start, end, outcome) ==
    /\ Len(outcome.self.edges) <= MaxQueryEdges
    /\ inst' = outcome.self
    /\ last' = Call(op, start, end, NoIndex, outcome)
    /\ UNCHANGED <<guiVars, diffVars, edgeVars, useVars>>

QueryAddEdges ==
    \E e \in QueryPool :
       DoAdd("add_edges", NoIndex, NoIndex, add_edges(inst, <<e>>))

QueryAddSpan ==
    \E start \in Idx :
       DoAdd("add_span", start, 1, add_span(inst, start, 1, LabelA, DEP, DescD))

NextQuery ==
    \/ GetEdges
    \/ QueryAddEdges
    \/ QueryAddSpan

SpecQuery == InitQuery /\ [][NextQuery]_vars

(***************************************************************************)
(* The interval relations of Edge: get_min_index, get_max_index, covers,   *)
(* covers_exactly, covers_semi, overlaps, strictly_covers, crosses.  A     *)
(* chained comparison of Python is the conjunction of its links.           *)
(***************************************************************************)
get_min_index(self) ==
    IF self.start.index <= self.end.index THEN self.start.index
    ELSE self.end.index

get_max_index(self) ==
    IF self.start.index >= self.end.index THEN self.start.index
    ELSE self.end.index

\* covers with <= for its first <
covers_or_left_aligned(self, edge) ==
    /\ get_min_index(self) <= get_min_index(edge)
    /\ get_min_index(edge) <= get_max_index(edge)
    /\ get_max_index(edge) < get_max_index(self)

covers(self, edge) ==
    /\ get_min_index(self) < get_min_index(edge)
    /\ get_min_index(edge) <= get_max_index(edge)
    /\ get_max_index(edge) < get_max_index(self)

covers_exactly(self, edge) ==
    /\ get_min_index(edge) = get_min_index(self)
    /\ get_min_index(self) <= get_max_index(self)
    /\ get_max_index(self) = get_max_index(edge)

\* covers_semi with <= for the < of its first line
covers_semi_or_exactly(self, edge) ==
    \/ /\ get_min_index(self) <= get_min_index(edge)
       /\ get_min_index(edge) <= get_max_index(edge)
       /\ get_max_index(edge) = get_max_index(self)
    \/ /\ get_min_index(self) = get_min_index(edge)
       /\ get_min_index(edge) <= get_max_index(edge)
       /\ get_max_index(edge) < get_max_index(self)

covers_semi(self, edge) ==
    \/ /\ get_min_index(self) < get_min_index(edge)
       /\ get_min_index(edge) <= get_max_index(edge)
       /\ get_max_index(edge) = get_max_index(self)
    \/ /\ get_min_index(self) = get_min_index(edge)
       /\ get_min_index(edge) <= get_max_index(edge)
       /\ get_max_index(edge) < get_max_index(self)

overlaps(self, edge) ==
    \/ /\ get_min_index(self) <= get_min_index(edge)
       /\ get_min_index(edge) <= get_max_index(self)
       /\ get_max_index(self) <= get_max_index(edge)
    \/ /\ get_min_index(edge) <= get_min_index(self)
       /\ get_min_index(self) <= get_max_index(self)
       /\ get_max_index(self) <= get_min_index(edge)
       /\ get_min_index(edge) <= get_max_index(edge)

strictly_covers(self, edge) ==
    \/ /\ get_min_index(self) < get_min_index(edge)
       /\ get_min_index(edge) <= get_max_index(edge)
       /\ get_max_index(edge) <= get_max_index(self)
    \/ /\ get_min_index(self) <= get_min_index(edge)
       /\ get_min_index(edge) <= get_max_index(edge)
       /\ get_max_index(edge) < get_max_index(self)

\* crosses without its second line
crosses_from_the_left(self, edge) ==
    /\ get_min_index(self) < get_min_index(edge)
    /\ get_min_index(edge) < get_max_index(self)
    /\ get_max_index(self) < get_max_index(edge)

crosses(self, edge) ==
    \/ /\ get_min_index(self) < get_min_index(edge)
       /\ get_min_index(edge) < get_max_index(self)
       /\ get_max_index(self) < get_max_index(edge)
    \/ /\ get_min_index(edge) < get_min_index(self)
       /\ get_min_index(self) < get_max_index(edge)
       /\ get_max_index(edge) < get_max_index(self)

(***************************************************************************)
(* Three edges related.  The edges are those between any two tokens of a   *)
(* sentence, in either direction, self-loops included; every relation is   *)
(* applied to every pair of the three.                                     *)
(***************************************************************************)
MaxIndex == 4        \* the largest token index of the related edges

RelEdges ==
    {Edge(T(i), T(j), LabelA, DEP, None, EdgeRenderType_dependency,
          NoDescription, TRUE) : i \in 0..MaxIndex, j \in 0..MaxIndex}

InitRel ==
    /\ ea \in RelEdges
    /\ eb \in RelEdges
    /\ ec \in RelEdges
    /\ cmp = Idle
    /\ inst = Idle /\ last = Idle
    /\ gold = Idle /\ guess = Idle /\ diff = Idle
    /\ held = Idle /\ layout = Idle
    /\ panel = Idle /\ navigator = Idle

Names == {"a", "b", "c"}

\* cmp.covers[x, y] = covers of the edge named x and the edge named y,
\* and so on
RelateEdges ==
    /\ cmp = Idle
    /\ LET E(x) == CASE x = "a" -> ea [] x = "b" -> eb [] x = "c" -> ec
       IN cmp' =
            [covers |-> [x \in Names, y \in Names |-> covers(E(x), E(y))],
             covers_exactly |->
                [x \in Names, y \in Names |-> covers_exactly(E(x), E(y))],
             covers_semi |->
                [x \in Names, y \in Names |-> covers_semi(E(x), E(y))],
             overlaps |-> [x \in Names, y \in Names |-> overlaps(E(x), E(y))],
             strictly_covers |->
                [x \in Names, y \in Names |-> strictly_covers(E(x), E(y))],
             crosses |-> [x \in Names, y \in Names |-> crosses(E(x), E(y))]]
    /\ UNCHANGED <<guiVars, ea, eb, ec, buildVars, diffVars, held, layout>>

NextRel == RelateEdges

SpecRel == InitRel /\ [][NextRel]_vars

(***************************************************************************)
(* The dependency layout's assignment of levels (DependencyLayout of       *)
(* libwwnlp/render/layouts/dependency_layout.py).  The edges are taken in  *)
(* the order in which the set handed over is iterated; an edge gets the    *)
(* lowest level on which no edge placed before it conflicts with it, two   *)
(* edges conflicting when one overlaps the other or they cross.  A         *)
(* self-loop is drawn above its token and takes no part in the levels.     *)
(***************************************************************************)
\* the conflict looked for from the new edge only
conflicts_from_new_edge(edge, placed) ==
    overlaps(edge, placed) \/ crosses(edge, placed)

conflicts(edge, placed) ==
    overlaps(edge, placed) \/ overlaps(placed, edge) \/ crosses(edge, placed)

is_self_loop(edge) == edge.start.index = edge.end.index

NoLevels == [e \in {} |-> 0]

lowest_free_level(levels, edge) ==
    LET Free(l) ==
           \A placed \in DOMAIN levels :
              levels[placed] = l => ~conflicts(edge, placed)
    IN CHOOSE l \in 0..Cardinality(DOMAIN levels) :
          Free(l) /\ \A m \in 0..(l - 1) : ~Free(m)

RECURSIVE assign_levels(_, _)
assign_levels(levels, order) ==
    IF order = <<>> THEN levels
    ELSE LET edge == Head(order)
         IN IF is_self_loop(edge) THEN assign_levels(levels, Tail(order))
            ELSE LET level == lowest_free_level(levels, edge)
                 IN assign_levels([e \in DOMAIN levels \cup {edge} |->
                                      IF e = edge THEN level ELSE levels[e]],
                                  Tail(order))

\* the height of a level (height_per_level of spec 4.3)
HeightPerLevel == 15

\* the levels of the edges, the number of levels used and the height taken
layout_edges(order) ==
    LET levels == assign_levels(NoLevels, order)
        max_level_used == Cardinality({levels[e] : e \in DOMAIN levels})
    IN [levels |-> levels,
        max_level_used |-> max_level_used,
        height |-> max_level_used * HeightPerLevel]

(***************************************************************************)
(* SingleSentenceRenderer.render: the calls it makes on its three layouts, *)
(* in order, the origins it passes to them, what the dependency layout     *)
(* makes of the edges of render type dependency, and the size returned.    *)
(* order is the order in which that set is iterated; sizes holds what the  *)
(* layouts report: token_max_width (estimate_token_bounds), d_width        *)
(* (dependency layout), t_width and t_height (token layout), s_height      *)
(* (span layout).                                                          *)
(***************************************************************************)
max(a, b) == IF a >= b THEN a ELSE b

\* the dependency layout called before the token bounds are estimated
render_calls_layout_first(render_spans) ==
    <<"span_layout.estimate_required_token_widths",
      "dependency_layout.layout_edges",
      "token_layout.estimate_token_bounds",
      "token_layout.layout">>
    \o (IF render_spans THEN <<"span_layout.layout_edges">> ELSE <<>>)

\* lines 53 to 70: the calls on the layouts
render_calls(render_spans) ==
    <<"span_layout.estimate_required_token_widths",
      "token_layout.estimate_token_bounds",
      "dependency_layout.layout_edges",
      "token_layout.layout">>
    \o (IF render_spans THEN <<"span_layout.layout_edges">> ELSE <<>>)

\* the spans placed at the height of the dependencies
render_origins_without_tokens(render_spans, d_height, t_height) ==
    [call \in {"token_layout.layout"}
              \cup (IF render_spans THEN {"span_layout.layout_edges"} ELSE {})
        |-> <<0, d_height>>]

\* lines 64 and 70: the origins passed to the token and the span layout
render_origins(render_spans, d_height, t_height) ==
    [call \in {"token_layout.layout"}
              \cup (IF render_spans THEN {"span_layout.layout_edges"} ELSE {})
        |-> IF call = "token_layout.layout" THEN <<0, d_height>>
            ELSE <<0, d_height + t_height>>]

render(instance, render_spans, order, sizes) ==
    LET spans == get_edges(instance, EdgeRenderType_span)
        dependencies == layout_edges(order)
        d_width == sizes.d_width
        d_height == dependencies.height
        t_width == sizes.t_width
        t_height == sizes.t_height
        s_height == IF render_spans THEN sizes.s_height ELSE 0
    IN [renderer |-> "single",
        render_spans |-> render_spans,
        sizes |-> sizes,
        calls |-> render_calls(render_spans),
        origins |-> render_origins(render_spans, d_height, t_height),
        spans |-> spans,
        dependencies |-> dependencies,
        raised |-> NoError,
        ret |-> [width |-> max(max(d_width, t_width), sizes.token_max_width),
                 height |-> d_height + t_height + s_height + 1]]

(***************************************************************************)
(* AlignmentRenderer.render.  The token layouts give a token its           *)
(* horizontal bounds (token_bounds) and report the size of a row (dim1,    *)
(* dim2); the scene keeps what is added to it and the translations made.   *)
(* The loop over the edges reads edge.properties, an attribute an Edge     *)
(* does not have: the first edge raises AttributeError.                    *)
(***************************************************************************)
AttributeError == "AttributeError"
HeightFactor == 100
fp_color == <<255, 0, 0>>
fn_color == <<0, 0, 255>>
match_color == <<0, 0, 0>>

TokenPitch == 20
TokenWidth == 10
token_bounds(token) ==
    <<token.index * TokenPitch, token.index * TokenPitch + TokenWidth>>

middle(bound) == (bound[1] + bound[2]) \div 2

has_attribute(object, name) == name \in DOMAIN object

\* lines 58 to 63
edge_color(edge) ==
    IF "eval_status_FP" \in edge.properties THEN fp_color
    ELSE IF "eval_status_FN" \in edge.properties THEN fn_color
    ELSE match_color

\* lines 64 to 75
arc(edge, edge_color_, height, is_curved) ==
    LET bound1 == token_bounds(edge.start)
        bound2 == token_bounds(edge.end)
    IN IF is_curved
       THEN [kind |-> "QuadraticBezierCurve",
             start |-> <<middle(bound1), height>>,
             ctrl1 |-> <<middle(bound1), height + HeightFactor \div 2>>,
             ctrl2 |-> <<middle(bound2), height + HeightFactor \div 2>>,
             end |-> <<middle(bound2), height + HeightFactor>>,
             color |-> edge_color_]
       ELSE [kind |-> "Line",
             start |-> <<middle(bound1), height>>,
             end |-> <<middle(bound2), height + HeightFactor>>,
             color |-> edge_color_]

\* the loop of lines 57 to 75 over the edges in the order taken
RECURSIVE add_arcs(_, _, _, _)
add_arcs(scene, order, height, is_curved) ==
    IF order = <<>> THEN [scene |-> scene, raised |-> NoError]
    ELSE LET edge == Head(order)
         IN IF ~has_attribute(edge, "properties")
            THEN [scene |-> scene, raised |-> AttributeError]
            ELSE add_arcs(Append(scene,
                                 arc(edge, edge_color(edge), height, is_curved)),
                          Tail(order), height, is_curved)

\* lines 44 to 51: the calls before the loop
render_alignment_calls ==
    <<"token_layout1.estimate_token_bounds",
      "token_layout2.estimate_token_bounds",
      "token_layout1.layout">>

render_alignment(instance, order, is_curved, dim1, dim2) ==
    LET height1 == dim1[2]
        width1 == IF dim1[1] > 0 THEN dim1[1] ELSE 0
        arcs == add_arcs(<<>>, order, height1, is_curved)
        added == [i \in DOMAIN arcs.scene |-> "scene.add"]
        height2 == height1 + dim2[2] + HeightFactor
        width2 == IF dim2[1] > width1 THEN dim2[1] ELSE width1
    IN IF arcs.raised # NoError
       THEN [renderer |-> "alignment",
             is_curved |-> is_curved, dim1 |-> dim1, dim2 |-> dim2,
             edges |-> order,
             calls |-> render_alignment_calls \o added,
             scene |-> arcs.scene,
             raised |-> arcs.raised,
             ret |-> NoValue]
       ELSE [renderer |-> "alignment",
             is_curved |-> is_curved, dim1 |-> dim1, dim2 |-> dim2,
             edges |-> order,
             calls |-> render_alignment_calls \o added
                       \o <<"scene.translate", "token_layout2.layout">>,
             scene |-> Append(arcs.scene,
                              [kind |-> "translate", dx |-> 0,
                               dy |-> dim1[2] + HeightFactor]),
             raised |-> NoError,
             ret |-> [width |-> width2, height |-> height2 + 1]]

MaxLayoutEdges == 3  \* the number of edges of a rendered instance

\* arcs that touch, cross, nest, share their range, lie apart, a self-loop
\* and a span
LayoutPool ==
    {Edge(T(0), T(1), LabelA, DEP, None, EdgeRenderType_dependency, DescD, TRUE),
     Edge(T(1), T(3), LabelA, DEP, None, EdgeRenderType_dependency, DescD, TRUE),
     Edge(T(1), T(3), LabelB, ROLE, None, EdgeRenderType_dependency, DescD, TRUE),
     Edge(T(0), T(2), LabelA, DEP, None, EdgeRenderType_dependency, DescD, TRUE),
     Edge(T(3), T(0), LabelA, DEP, None, EdgeRenderType_dependency, DescD, TRUE),
     Edge(T(2), T(3), LabelA, DEP, None, EdgeRenderType_dependency, DescD, TRUE),
     Edge(T(1), T(1), LabelA, DEP, None, EdgeRenderType_dependency, DescD, TRUE),
     Edge(T(0), T(2), LabelA, DEP, None, EdgeRenderType_span, DescD, TRUE)}

InitLayout ==
    /\ \E edges \in ListsOf(LayoutPool, MaxLayoutEdges) :
          inst = NLPInstance(Sentence(4), edges, RenderType_single, <<>>)
    /\ last = Call("__init__", NoIndex, NoIndex, NoIndex,
                   Outcome(Idle, NoError, NoValue))
    /\ layout = Idle
    /\ panel = Idle /\ navigator = Idle
    /\ gold = Idle /\ guess = Idle /\ diff = Idle
    /\ ea = Idle /\ eb = Idle /\ cmp = Idle
    /\ ec = Idle /\ held = Idle

\* what the layouts report to SingleSentenceRenderer.render: the widest is
\* the token layout's, the estimate's or the dependency layout's
LayoutSizes ==
    {[token_max_width |-> 25, d_width |-> 20, t_width |-> 30, t_height |-> 10,
      s_height |-> 5],
     [token_max_width |-> 40, d_width |-> 20, t_width |-> 30, t_height |-> 12,
      s_height |-> 5],
     [token_max_width |-> 10, d_width |-> 35, t_width |-> 30, t_height |-> 10,
      s_height |-> 7]}

\* (width, height) of a row of tokens
RowDims == {<<30, 10>>, <<20, 12>>}

\* layout = SingleSentenceRenderer().render(inst, scene, render_spans)
Render ==
    /\ layout = Idle
    /\ \E render_spans \in BOOLEAN,
          order \in Orders(get_edges(inst, EdgeRenderType_dependency)),
          sizes \in LayoutSizes :
          layout' = render(inst, render_spans, order, sizes)
    /\ UNCHANGED <<guiVars, buildVars, diffVars, edgeVars, ec, held>>

\* layout = AlignmentRenderer().render(inst, scene)
RenderAlignment ==
    /\ layout = Idle
    /\ \E order \in Orders(get_edges(inst, EdgeRenderType_dependency)),
          is_curved \in BOOLEAN, dim1 \in RowDims, dim2 \in RowDims :
          layout' = render_alignment(inst, order, is_curved, dim1, dim2)
    /\ UNCHANGED <<guiVars, buildVars, diffVars, edgeVars, ec, held>>

NextLayout ==
    \/ Render
    \/ RenderAlignment

SpecLayout == InitLayout /\ [][NextLayout]_vars

(***************************************************************************)
(* DependencyFilterPanel.  The panel controls an EdgeLabelFilter (its      *)
(* allowed labels), an EdgeTokenFilter (its allowed properties and the     *)
(* attributes the handlers assign) and an NLPCanvas, of which the model    *)
(* keeps the filters as its last update_nlp_graphics found them.  Each     *)
(* handler leaves in calls the calls and assignments it made, in order.    *)
(***************************************************************************)
\* str.split(sep): the pieces between the separators, empty ones included
RECURSIVE split(_, _)
split(text, sep) ==
    IF \A i \in DOMAIN text : text[i] # sep THEN <<text>>
    ELSE LET index == find(text, sep)
         IN <<SubSeq(text, 1, index)>>
               \o split(SubSeq(text, index + 2, Len(text)), sep)

\* str(bool)
str_of_bool(value) == IF value THEN <<"T", "r", "u", "e">>
                      ELSE <<"F", "a", "l", "s", "e">>

Filters(self) ==
    [edgeLabelFilter |-> self.edgeLabelFilter,
     edgeTokenFilter |-> self.edgeTokenFilter]

Called_(self, name, arg) ==
    [self EXCEPT !.calls = Append(@, [call |-> name, arg |-> arg])]

EdgeLabelFilter_clear(self) ==
    [Called_(self, "edgeLabelFilter.clear", <<>>)
        EXCEPT !.edgeLabelFilter.allowed_labels = {}]

EdgeLabelFilter_add_allowed_label(self, label) ==
    [Called_(self, "edgeLabelFilter.add_allowed_label", label)
        EXCEPT !.edgeLabelFilter.allowed_labels = @ \cup {label}]

EdgeTokenFilter_clear(self) ==
    [Called_(self, "edgeTokenFilter.clear", <<>>)
        EXCEPT !.edgeTokenFilter.allowed_properties = {}]

EdgeTokenFilter_add_allowed_property(self, token_property) ==
    [Called_(self, "edgeTokenFilter.add_allowed_property", token_property)
        EXCEPT !.edgeTokenFilter.allowed_properties = @ \cup {token_property}]

update_nlp_graphics(self) ==
    [Called_(self, "nlpCanvas.update_nlp_graphics", <<>>)
        EXCEPT !.nlpCanvas = Filters(self)]

\* "for label in split: edgeLabelFilter.add_allowed_label(label)"
RECURSIVE add_allowed_labels(_, _)
add_allowed_labels(self, labels) ==
    IF labels = <<>> THEN self
    ELSE add_allowed_labels(EdgeLabelFilter_add_allowed_label(self, Head(labels)),
                            Tail(labels))

\* "for token_property in split: edgeTokenFilter.add_allowed_property(...)"
RECURSIVE add_allowed_properties(_, _)
add_allowed_properties(self, properties) ==
    IF properties = <<>> THEN self
    ELSE add_allowed_properties(
            EdgeTokenFilter_add_allowed_property(self, Head(properties)),
            Tail(properties))

\* the canvas updated as soon as the filter is cleared
labelFieldChanged_updating_first(self, text) ==
    add_allowed_labels(update_nlp_graphics(EdgeLabelFilter_clear(self)),
                       split(text, ","))

labelFieldChanged(self, text) ==
    update_nlp_graphics(
       add_allowed_labels(EdgeLabelFilter_clear(self), split(text, ",")))

tokenTextFieldChanged(self, text) ==
    update_nlp_graphics(
       add_allowed_properties(EdgeTokenFilter_clear(self), split(text, ",")))

usePathAction(self, value) ==
    update_nlp_graphics(
       [Called_(self, "edgeTokenFilter.usePath =", str_of_bool(value = 2))
           EXCEPT !.edgeTokenFilter.usePath = (value = 2)])

collapseAction(self, value) ==
    update_nlp_graphics(
       [Called_(self, "edgeTokenFilter.collaps =", str_of_bool(value = 2))
           EXCEPT !.edgeTokenFilter.collaps = (value = 2)])

wholeWordsAction(self, value) ==
    update_nlp_graphics(
       [Called_(self, "edgeTokenFilter.whole_words =", str_of_bool(value = 2))
           EXCEPT !.edgeTokenFilter.whole_words = (value = 2)])

\* what the user types into the two fields: nothing, one entry, two, and
\* entries with an empty one among them
FieldTexts ==
    {<<>>, <<"A">>, <<"A", ",", "B">>, <<"B", ",", "A", ",", "B">>,
     <<",", "A">>, <<"B", ",">>}

\* Qt.Unchecked, Qt.PartiallyChecked, Qt.Checked
CheckStates == {0, 1, 2}

NoText == <<"-">>

InitPanel ==
    /\ panel = [edgeLabelFilter |-> [allowed_labels |-> {}],
                edgeTokenFilter |-> [allowed_properties |-> {},
                                     usePath |-> FALSE, collaps |-> FALSE,
                                     whole_words |-> FALSE],
                nlpCanvas |-> [edgeLabelFilter |-> [allowed_labels |-> {}],
                               edgeTokenFilter |-> [allowed_properties |-> {},
                                                    usePath |-> FALSE,
                                                    collaps |-> FALSE,
                                                    whole_words |-> FALSE]],
                handler |-> "__init__", text |-> NoText, value |-> NoIndex,
                calls |-> <<>>]
    /\ inst = Idle /\ last = Idle
    /\ gold = Idle /\ guess = Idle /\ diff = Idle
    /\ ea = Idle /\ eb = Idle /\ cmp = Idle
    /\ ec = Idle /\ held = Idle /\ layout = Idle
    /\ navigator = Idle

\* the signal of a widget delivered to its handler
Handle(handler, text, value) ==
    [panel EXCEPT !.handler = handler, !.text = text, !.value = value,
                  !.calls = <<>>]

LabelFieldChanged ==
    /\ \E text \in FieldTexts :
          panel' = labelFieldChanged(Handle("labelFieldChanged", text, NoIndex),
                                     text)
    /\ UNCHANGED <<buildVars, diffVars, edgeVars, useVars, navigator>>

TokenTextFieldChanged ==
    /\ \E text \in FieldTexts :
          panel' = tokenTextFieldChanged(
                      Handle("tokenTextFieldChanged", text, NoIndex), text)
    /\ UNCHANGED <<buildVars, diffVars, edgeVars, useVars, navigator>>

UsePathAction ==
    /\ \E value \in CheckStates :
          panel' = usePathAction(Handle("usePathAction", NoText, value), value)
    /\ UNCHANGED <<buildVars, diffVars, edgeVars, useVars, navigator>>

CollapseAction ==
    /\ \E value \in CheckStates :
          panel' = collapseAction(Handle("collapseAction", NoText, value), value)
    /\ UNCHANGED <<buildVars, diffVars, edgeVars, useVars, navigator>>

WholeWordsAction ==
    /\ \E value \in CheckStates :
          panel' = wholeWordsAction(Handle("wholeWordsAction", NoText, value),
                                    value)
    /\ UNCHANGED <<buildVars, diffVars, edgeVars, useVars, navigator>>

NextPanel ==
    \/ LabelFieldChanged
    \/ TokenTextFieldChanged
    \/ UsePathAction
    \/ CollapseAction
    \/ WholeWordsAction

SpecPanel == InitPanel /\ [][NextPanel]_vars

(***************************************************************************)
(* CorpusNavigator.  _gold and _gold_corpora are one list, and so are      *)
(* _guess and _guess_corpora: a corpus is the instances it held when the   *)
(* navigator was made (corpora) followed by what corpus_added appended     *)
(* (added); loaded is FALSE for None.  The navigator keeps its cache       *)
(* _indices, its spinner, _instance and the search results; of the canvas  *)
(* it keeps the instance last handed over, and of the last call the        *)
(* instances it handed over (handed) and whether it asked for the graphics *)
(* to be updated (updated).                                                *)
(***************************************************************************)
IndexError == "IndexError"
ValueError == "ValueError"

MaxCorpus == 2       \* number of instances of a corpus
MaxAdded == 1        \* number of corpora added by corpus_added
MaxSpin == 2         \* largest spinner value chosen when no corpus bounds it

SpinBoxMaximum == 99

NavPool ==
    {NLPInstance(Sentence(2),
                 <<Edge(T(0), T(1), LabelA, edge_type, None,
                        EdgeRenderType_dependency, DescD, TRUE)>>,
                 RenderType_single, <<>>) : edge_type \in {DEP, ROLE}}

Corpora ==
    {[loaded |-> FALSE, corpora |-> <<>>, added |-> <<>>]}
       \cup {[loaded |-> TRUE, corpora |-> corpus, added |-> <<>>] :
                corpus \in UNION {[1..n -> NavPool] : n \in 1..MaxCorpus}}

\* len(corpus)
len(corpus) == Len(corpus.corpora) + Len(corpus.added)

\* lines 276 to 288: the example instance
ExampleDependencies ==
    <<<<0, 1, <<"R", "O", "O", "T">>, DEP>>,
      <<0, 5, <<"P", "U", "N", "C">>, DEP>>,
      <<1, 4, <<"O", "B", "J">>, DEP>>,
      <<4, 2, <<"D", "E", "T">>, DEP>>,
      <<4, 3, <<"M", "O", "D">>, DEP>>,
      <<1, 4, <<"A", "1">>, ROLE>>,
      <<1, 1, <<"a", "d", "d", ".", "1">>, <<"s", "e", "n", "s", "e">>>>>>

RECURSIVE add_dependencies(_, _)
add_dependencies(self, dependencies) ==
    IF dependencies = <<>> THEN self
    ELSE LET d == Head(dependencies)
         IN add_dependencies(
               add_dependency(self, d[1], d[2], d[3], d[4], NoDescription,
                              TRUE).self,
               Tail(dependencies))

example ==
    add_dependencies(
       NLPInstance([i \in 1..6 |->
                       Token_add_property(
                          Token_add_property(Token(i - 1, FALSE), "Word"),
                          "Index")],
                   <<>>, RenderType_single, <<>>),
       ExampleDependencies)

\* lines 290 to 299
ExampleEdgeTypes == {"dep", "role", "sense", "ner", "chunk", "pos", "align"}
ExampleEdgeProperties ==
    {"eval_status_FP", "eval_status_FN", "eval_status_Match"}

\* get_diff_corpus: nlp_diff takes two arguments and is called
\* with five, which raises TypeError in the first turn of the loop
get_diff_corpus(gold_, guess_) ==
    IF min(len(gold_), len(guess_)) > 0
    THEN [raised |-> TypeError, ret |-> <<>>]
    ELSE [raised |-> NoError, ret |-> <<>>]

\* the outcome of a call on the navigator
Left(self, op, raised, handed, updated) ==
    [self EXCEPT !.op = op, !.raised = raised, !.handed = handed,
                 !.updated = updated]

put(indices, index, instance) ==
    [i \in DOMAIN indices \cup {index} |->
        IF i = index THEN instance ELSE indices[i]]

update_canvas(self, op) ==
    LET index == self.spinner.value - 1
    IN IF self.gold.loaded
       THEN IF ~self.guess.loaded
            THEN IF index \in DOMAIN self.indices
                 THEN Left([self EXCEPT !.instance = self.indices[index]],
                           op, NoError, <<>>, TRUE)
                 ELSE IF index + 1 \in DOMAIN self.gold.corpora
                 THEN LET instance == self.gold.corpora[index + 1]
                      IN Left([self EXCEPT !.instance = instance,
                                           !.indices = put(@, index, instance)],
                              op, NoError, <<>>, TRUE)
                 ELSE Left(self, op, IndexError, <<>>, FALSE)
            ELSE IF index \in DOMAIN self.indices
                 THEN LET instance == self.indices[index]
                      IN Left([self EXCEPT !.instance = instance,
                                           !.canvas.instance = instance],
                              op, NoError, <<instance>>, TRUE)
                 ELSE IF get_diff_corpus(self.gold, self.guess).raised # NoError
                 THEN Left(self, op,
                           get_diff_corpus(self.gold, self.guess).raised,
                           <<>>, FALSE)
                 ELSE Left(self, op, IndexError, <<>>, FALSE)   \* [][index]
       ELSE Left([self EXCEPT
                     !.canvas.instance = example,
                     !.edgeTypeFilter.allowed_edge_types =
                        @ \cup ExampleEdgeTypes,
                     !.edgeTypeFilter.allowed_edge_properties =
                        @ \cup ExampleEdgeProperties],
                 op, NoError, <<example>>, TRUE)

\* update_spinner_borders, on a spin box with Qt's range of 0 to 99
update_spinner_borders(self) ==
    IF self.gold.loaded
    THEN LET index == IF ~self.guess.loaded THEN len(self.gold)
                      ELSE min(len(self.gold), len(self.guess))
         IN [self EXCEPT !.spinner =
                [value |-> 1, minimum |-> 1, maximum |-> max(index, 1)]]
    ELSE [self EXCEPT !.spinner =
             [value |-> 0, minimum |-> 0, maximum |-> SpinBoxMaximum]]

\* CorpusNavigator(ui, canvas, gold_loader, guess_loader, edge_type_filter)
CorpusNavigator(gold_loader, guess_loader) ==
    update_canvas(
       update_spinner_borders(
          [gold |-> gold_loader, guess |-> guess_loader,
           indices |-> [i \in {} |-> example],
           spinner |-> [value |-> 0, minimum |-> 0, maximum |-> SpinBoxMaximum],
           instance |-> NoValue,
           canvas |-> [instance |-> NoValue],
           edgeTypeFilter |-> [allowed_edge_types |-> {},
                               allowed_edge_properties |-> {}],
           searchResultDictModel |-> <<>>,
           op |-> "__init__", raised |-> NoError, handed |-> <<>>,
           updated |-> FALSE]),
       "__init__")

\* the loop of search_corpus over the indices from index to last, filling
\* the cache
RECURSIVE search_indices(_, _, _)
search_indices(self, index, last_) ==
    IF index > last_ THEN self
    ELSE IF index \in DOMAIN self.indices
    THEN search_indices(self, index + 1, last_)
    ELSE IF self.gold.loaded /\ self.guess.loaded
    THEN [self EXCEPT !.raised = TypeError]     \* len() of an NLPInstance
    ELSE IF ~self.gold.loaded /\ ~self.guess.loaded
    THEN [self EXCEPT !.raised = ValueError]
    ELSE LET corpus == IF self.gold.loaded THEN self.gold ELSE self.guess
             \* list[index]: a negative index counts from the end
             at == IF index < 0 THEN len(corpus) + index ELSE index
         IN IF at + 1 \in DOMAIN corpus.corpora
            THEN search_indices(
                    [self EXCEPT !.indices =
                        put(@, index, corpus.corpora[at + 1])],
                    index + 1, last_)
            ELSE [self EXCEPT !.raised = IndexError]

\* the ascending sequence of the elements of a set of numbers
RECURSIVE sorted(_)
sorted(numbers) ==
    IF numbers = {} THEN <<>>
    ELSE LET least == CHOOSE m \in numbers : \A n \in numbers : m <= n
         IN <<least>> \o sorted(numbers \ {least})

\* search_corpus with text in the search field; hits are the indices of the
\* instances whose sentence holds the text
search_corpus(self, text, hits) ==
    LET cleared == Left([self EXCEPT !.searchResultDictModel = <<>>],
                        "search_corpus", NoError, <<>>, FALSE)
    IN IF text = <<>> THEN cleared
       ELSE LET searched == search_indices(cleared, self.spinner.minimum - 1,
                                           self.spinner.maximum - 1)
            IN IF searched.raised # NoError THEN searched
               ELSE [searched EXCEPT !.searchResultDictModel =
                        sorted({index + 1 : index \in hits})]

\* corpus_added(corpus, src)
corpus_added(self, corpus, src) ==
    IF src = "gold" /\ self.gold.loaded
    THEN Left([self EXCEPT !.gold.added = Append(@, corpus)],
              "corpus_added", NoError, <<>>, FALSE)
    ELSE IF self.guess.loaded
    THEN Left([self EXCEPT !.guess.added = Append(@, corpus)],
              "corpus_added", NoError, <<>>, FALSE)
    ELSE Left(self, "corpus_added", AttributeError, <<>>, FALSE)

InitNavigator ==
    /\ \E gold_loader \in Corpora, guess_loader \in Corpora :
          navigator = CorpusNavigator(gold_loader, guess_loader)
    /\ inst = Idle /\ last = Idle
    /\ gold = Idle /\ guess = Idle /\ diff = Idle
    /\ ea = Idle /\ eb = Idle /\ cmp = Idle
    /\ ec = Idle /\ held = Idle /\ layout = Idle
    /\ panel = Idle

\* the navigator was made: its constructor raised nothing
Constructed == navigator.op # "__init__" \/ navigator.raised = NoError

\* the spinner is set to another value of its range: valueChanged calls
\* update_canvas
SpinnerValueChanged ==
    /\ Constructed
    /\ \E value \in navigator.spinner.minimum
                       ..min(navigator.spinner.maximum, MaxSpin) :
          /\ value # navigator.spinner.value
          /\ navigator' = update_canvas(
                             [navigator EXCEPT !.spinner.value = value],
                             "update_canvas")
    /\ UNCHANGED <<buildVars, diffVars, edgeVars, useVars, panel>>

\* the search button is clicked
SearchCorpus ==
    /\ Constructed
    /\ \E text \in {<<>>, <<"A">>},
          hits \in SUBSET ((navigator.spinner.minimum - 1)
                              ..(min(navigator.spinner.maximum, MaxSpin) - 1)) :
          navigator' = search_corpus(navigator, text, hits)
    /\ UNCHANGED <<buildVars, diffVars, edgeVars, useVars, panel>>

\* a loader reports a corpus
CorpusAdded ==
    /\ Constructed
    /\ Len(navigator.gold.added) + Len(navigator.guess.added) < MaxAdded
    /\ \E corpus \in {<<instance>> : instance \in NavPool},
          src \in {"gold", "guess"} :
          navigator' = corpus_added(navigator, corpus, src)
    /\ UNCHANGED <<buildVars, diffVars, edgeVars, useVars, panel>>

NextNavigator ==
    \/ SpinnerValueChanged
    \/ SearchCorpus
    \/ CorpusAdded

SpecNavigator == InitNavigator /\ [][NextNavigator]_vars

(***************************************************************************)
(* Two instances merged.  Both are instances the constructor builds: of    *)
(* no, one, two or three tokens, some with properties, and with edges      *)
(* between the first tokens, so that an edge of the one can lie beyond the *)
(* tokens of the other.                                                    *)
(***************************************************************************)
MaxMergeEdges == 2   \* length of the edges lists of the merged instances

MergeTokens ==
    {<<>>,
     <<Token_add_property(Token(0, FALSE), "Word")>>,
     <<Token(0, FALSE), Token_add_property(Token(1, FALSE), "Tag")>>,
     <<Token(0, FALSE), Token(1, FALSE), Token(2, FALSE)>>}

MergeEdgePool == {CallerEdge(0, 0), CallerEdge(0, 1), CallerEdge(1, 2)}

MergeInputs ==
    {NLPInstance(tokens, edges, RenderType_single, <<>>) :
        tokens \in MergeTokens, edges \in ListsOf(MergeEdgePool, MaxMergeEdges)}

InitMerge ==
    /\ inst \in MergeInputs
    /\ last = Call("__init__", NoIndex, NoIndex, NoIndex,
                   Outcome(Idle, NoError, NoValue))
    /\ gold = Idle /\ guess = Idle /\ diff = Idle
    /\ ea = Idle /\ eb = Idle /\ cmp = Idle
    /\ ec = Idle /\ held = Idle /\ layout = Idle
    /\ panel = Idle /\ navigator = Idle

\* inst.merge(nlp); the call is recorded with its argument
Merge ==
    \E nlp \in MergeInputs :
       LET outcome == merge(inst, nlp)
       IN /\ inst' = outcome.self
          /\ last' = [op |-> "merge", start |-> NoIndex, end |-> NoIndex,
                      index |-> NoIndex, raised |-> outcome.raised,
                      ret |-> outcome.ret, nlp |-> nlp]
          /\ UNCHANGED <<guiVars, diffVars, edgeVars, useVars>>

NextMerge == Merge

SpecMerge == InitMerge /\ [][NextMerge]_vars

(***************************************************************************)
(* Properties of the construction of an instance (checked under Spec).     *)
(***************************************************************************)
EdgeOps == {"add_edge", "add_span", "add_dependency"}

\* C1: a call of add_edge, add_span or add_dependency with a start or an end
\* that is no key of token_map raises KeyError and leaves the instance as it
\* was: the same edges, the same tokens and the same token_map.
C1_MissingTokenRaises ==
    [][(last'.op \in EdgeOps /\ ~is_valid_edge(inst, last'.start, last'.end))
          => (last'.raised = KeyError /\ inst' = inst)]_vars

\* a failed add_span on an instance that holds a token and an edge
C1_Witness ==
    /\ last.op = "add_span"
    /\ last.raised = KeyError
    /\ last.start \in DOMAIN inst.token_map
    /\ last.end \notin DOMAIN inst.token_map
    /\ inst.edges # <<>>

\* every stored edge has its start and its end token in token_map
EndpointsInTokenMap(self) ==
    \A i \in DOMAIN self.edges :
       /\ \E k \in DOMAIN self.token_map :
             Token_eq(self.token_map[k], self.edges[i].start)
       /\ \E k \in DOMAIN self.token_map :
             Token_eq(self.token_map[k], self.edges[i].end)

\* C2: in every state the construction operations reach, every edge stored
\* in the instance has both its start and its end token in token_map.
C2_EndpointsInTokenMap == EndpointsInTokenMap(inst)

\* C10: add_token(index) returns the token token_map holds at index, or else
\* makes a new token of that index, registers it in token_map and returns
\* it; add_token() appends a new token whose index is the number of tokens.
C10_AddToken ==
    [][last'.op = "add_token" =>
          IF last'.index = NoIndex
          THEN /\ last'.raised = NoError
               /\ last'.ret.index = Len(inst.tokens)
               /\ inst'.tokens = Append(inst.tokens, last'.ret)
               /\ inst'.token_map[Len(inst.tokens)] = last'.ret
          ELSE IF last'.index \in DOMAIN inst.token_map
          THEN /\ last'.raised = NoError
               /\ last'.ret = inst.token_map[last'.index]
               /\ inst' = inst
          ELSE /\ last'.raised = NoError
               /\ last'.ret.index = last'.index
               /\ last'.index \in DOMAIN inst'.token_map
               /\ inst'.token_map[last'.index] = last'.ret]_vars

(***************************************************************************)
(* Properties of Edge equality (checked under SpecEdge).                   *)
(***************************************************************************)
\* the five attributes that identify an edge; tokens count by their index
SameIdentity(e, f) ==
    /\ e.start.index = f.start.index
    /\ e.end.index = f.end.index
    /\ e.label = f.label
    /\ e.edge_type = f.edge_type
    /\ e.note = f.note

Called == diff # Idle
Returned == diff # Idle /\ diff.raised = NoError

Range(list) == {list[i] : i \in DOMAIN list}

Identity(e) == <<e.start.index, e.end.index, e.label, e.edge_type, e.note>>

EndsWith(s, suffix) ==
    /\ Len(s) >= Len(suffix)
    /\ SubSeq(s, Len(s) - Len(suffix) + 1, Len(s)) = suffix

\* the edges of one instance that have no equal (an equal) in the other
Without(edges, others) ==
    {e \in Range(edges) : \A f \in Range(others) : ~SameIdentity(e, f)}
Within(edges, others) ==
    {e \in Range(edges) : \E f \in Range(others) : SameIdentity(e, f)}

\* r is the edge o re-typed with the suffix: o's start index, end index,
\* label, note, description and render type, and o's type with the suffix
Retyped(r, o, suffix) ==
    /\ r.start.index = o.start.index
    /\ r.end.index = o.end.index
    /\ r.label = o.label
    /\ r.note = o.note
    /\ r.description = o.description
    /\ r.render_type = o.render_type
    /\ r.edge_type = o.edge_type \o suffix

\* the result holds one edge per distinct edge of originals, re-typed
OnePerEdge(result, originals, suffix) ==
    \A o \in originals :
       Cardinality({i \in DOMAIN result.edges :
                      /\ EndsWith(result.edges[i].edge_type, suffix)
                      /\ Identity(result.edges[i]) =
                            Identity([o EXCEPT !.edge_type = @ \o suffix])}) = 1

\* C3: the edges of the instance nlp_diff returns are exactly one edge typed
\* edge_type+":FN" per edge of gold.edges minus guess.edges, one typed
\* edge_type+":FP" per edge of guess.edges minus gold.edges and one typed
\* edge_type+":Match" per edge of the intersection, each with the original
\* edge's start index, end index, label, note, description and render type.
C3_DiffEdges ==
    Returned =>
       LET fn == Without(gold.edges, guess.edges)
           fp == Without(guess.edges, gold.edges)
           matches == Within(gold.edges, guess.edges)
                         \cup Within(guess.edges, gold.edges)
       IN /\ OnePerEdge(diff.ret, fn, FN)
          /\ OnePerEdge(diff.ret, fp, FP)
          /\ OnePerEdge(diff.ret, matches, MATCH)
          /\ \A i \in DOMAIN diff.ret.edges :
                \/ \E o \in fn : Retyped(diff.ret.edges[i], o, FN)
                \/ \E o \in fp : Retyped(diff.ret.edges[i], o, FP)
                \/ \E o \in matches : Retyped(diff.ret.edges[i], o, MATCH)

\* a returned diff with a false negative, a false positive and a match whose
\* two originals differ in description
C3_Witness ==
    /\ Returned
    /\ diff.fn # {} /\ diff.fp # {} /\ diff.matches # {}
    /\ \E e \in Range(gold.edges), f \in Range(guess.edges) :
          SameIdentity(e, f) /\ e.description # f.description

Disjoint(s, t) == \A e \in s, f \in t : ~SameIdentity(e, f)

C5_DiffOfSame ==
    (Called /\ gold = guess) =>
       /\ diff.fn = {} /\ diff.fp = {}
       /\ diff.raised = NoError =>
             /\ Len(diff.ret.edges) = Cardinality(diff.matches)
             /\ \A i \in DOMAIN diff.ret.edges :
                   /\ EndsWith(diff.ret.edges[i].edge_type, MATCH)
                   /\ ~EndsWith(diff.ret.edges[i].edge_type, FN)
                   /\ ~EndsWith(diff.ret.edges[i].edge_type, FP)

\* a returned diff of an instance with itself, the instance holding two
\* different edges
C5_Witness ==
    /\ Returned
    /\ gold = guess
    /\ Len(diff.ret.edges) = 2

\* C6: nlp_diff leaves gold and guess as they were, and the render_type,
\* the split_points and the tokens of its result are gold's, in gold's order.
C6_InputsKept ==
    [][(diff = Idle /\ diff' # Idle) =>
          /\ gold' = gold
          /\ guess' = guess
          /\ diff'.raised = NoError =>
                /\ diff'.ret.render_type = gold.render_type
                /\ diff'.ret.split_points = gold.split_points
                /\ diff'.ret.tokens = gold.tokens]_vars

\* a returned diff of two instances that differ in tokens, split points,
\* render type and edges
C6_Witness ==
    /\ Returned
    /\ gold.tokens # guess.tokens
    /\ gold.split_points # guess.split_points
    /\ gold.render_type # guess.render_type
    /\ diff.ret.edges # <<>>
    /\ diff.ret.split_points # <<>>

\* C8: a gold edge and a guess edge with the same start, end, label and
\* edge_type that differ only in note are one Match edge of the diff, not a
\* false negative plus a false positive.
C8_NoteIgnored ==
    Called =>
       \A e \in Range(gold.edges), f \in Range(guess.edges) :
          (SameIdentity([e EXCEPT !.note = None], [f EXCEPT !.note = None])
              /\ e.note # f.note)
          => /\ \A x \in diff.fn : ~SameIdentity(x, e)
             /\ \A y \in diff.fp : ~SameIdentity(y, f)
             /\ \E m \in diff.matches : SameIdentity(m, e) \/ SameIdentity(m, f)

\* the indices of the tokens of an instance
Indices(self) == {self.tokens[i].index : i \in DOMAIN self.tokens}

\* the result holds one re-typed edge per distinct edge of gold and guess
UnionOfEdges ==
    /\ \A e \in Range(gold.edges) \cup Range(guess.edges) :
          \E i \in DOMAIN diff.ret.edges, suffix \in {FN, FP, MATCH} :
             Identity(diff.ret.edges[i]) =
                Identity([e EXCEPT !.edge_type = @ \o suffix])
    /\ Len(diff.ret.edges) =
          Cardinality({Identity(e) : e \in Range(gold.edges) \cup Range(guess.edges)})

\* C9 as claimed: for gold and guess that each have every edge's endpoints
\* in their own token_map, nlp_diff raises nothing and returns an instance
\* whose edges are the union of the gold and guess edges.
C9_DiffNeverRaises ==
    (Called /\ EndpointsInTokenMap(gold) /\ EndpointsInTokenMap(guess)) =>
       (diff.raised = NoError /\ UnionOfEdges)

\* nlp_diff can add every edge: each edge of gold and of guess has a str as
\* its edge_type and both endpoint indices among the indices of gold's tokens
Addable ==
    \A e \in Range(gold.edges) \cup Range(guess.edges) :
       /\ e.edge_type # None
       /\ e.start.index \in Indices(gold)
       /\ e.end.index \in Indices(gold)

\* C9 amended: nlp_diff returns, and then an instance whose edges are the
\* union of the gold and guess edges (one re-typed edge per distinct edge),
\* exactly when every edge of gold and guess has a str edge_type and both
\* endpoint indices among gold's tokens; otherwise it raises TypeError or
\* KeyError and returns nothing.  It never returns a result with edges
\* missing.
C9_DiffAllOrNothing ==
    Called =>
       /\ diff.raised = NoError <=> Addable
       /\ diff.raised = NoError => UnionOfEdges
       /\ diff.raised # NoError =>
             (diff.raised \in {KeyError, TypeError} /\ diff.ret = NoValue)

\* a diff that raised although both inputs have all endpoints in their own
\* token_map, and after some edges had been added
C9_Witness ==
    /\ Called
    /\ EndpointsInTokenMap(gold) /\ EndpointsInTokenMap(guess)
    /\ diff.raised = KeyError
    /\ diff.fn # {} /\ diff.fp # {}

(***************************************************************************)
(* C11-C12: consistify (specification Spec)                                *)
(***************************************************************************)
\* the number of entries of the tokens list that are the token t
Occurrences(self, t) ==
    Cardinality({i \in DOMAIN self.tokens : self.tokens[i] = t})

TokensConsistent(self) ==
    /\ \A i \in DOMAIN self.tokens :
          /\ self.tokens[i].index \in DOMAIN self.token_map
          /\ self.token_map[self.tokens[i].index] = self.tokens[i]
    /\ \A k \in DOMAIN self.token_map :
          Occurrences(self, self.token_map[k]) = 1
    /\ \A i, j \in DOMAIN self.tokens :
          i # j => self.tokens[i].index # self.tokens[j].index

\* C11: when the last call was consistify, tokens and token_map are
\* consistent: every entry of tokens is the value of token_map at its
\* index, every value of token_map occurs in tokens exactly once, and no two
\* entries of tokens have the same index
C11_ConsistentAfterConsistify ==
    last.op = "consistify" => TokensConsistent(inst)

Ascending(tokens) ==
    \A i, j \in DOMAIN tokens : i < j => tokens[i].index <= tokens[j].index

\* C12: when the last call was consistify, the tokens list is in ascending
\* order of index, and one more call of consistify leaves it as it is
C12_ConsistifyTwice ==
    last.op = "consistify" =>
       /\ Ascending(inst.tokens)
       /\ consistify(inst).self.tokens = inst.tokens

(***************************************************************************)
(* C13: get_edges (specification SpecQuery)                                *)
(***************************************************************************)
\* C13: get_edges(r) returns the stored edges of render type r, and every
\* stored edge when no r is given: each element of the set returned is a
\* stored edge of that type, each stored edge of that type is in the set
\* (in the sense of Python's "in": an equal element is), and no two
\* elements are equal; the call leaves the instance as it was, and the set
\* a caller holds stays as it was returned whatever is added afterwards
C13_GetEdges ==
    [][IF last'.op = "get_edges"
       THEN LET r == held'.render_type
                ret == last'.ret.frozenset
                Wanted(e) == r = NoRenderType \/ e.render_type = r
            IN /\ held'.edges = last'.ret
               /\ \A x \in ret : x \in Range(inst.edges) /\ Wanted(x)
               /\ \A e \in Range(inst.edges) : Wanted(e) => set_contains(ret, e)
               /\ \A x, y \in ret : x # y => ~Edge_eq(x, y)
               /\ inst' = inst
       ELSE held' = held]_vars

\* a set of one render type is held and not empty, and the instance has
\* since got another edge of that type and has edges of other types
C13_Witness ==
    /\ held # Idle
    /\ last.op \in {"add_edges", "add_span"}
    /\ held.render_type # NoRenderType
    /\ held.edges.frozenset # {}
    /\ get_edges(inst, held.render_type) # held.edges.frozenset
    /\ \E e \in Range(inst.edges) : e.render_type # held.render_type

(***************************************************************************)
(* C14-C18: the interval relations (specification SpecRel)                 *)
(***************************************************************************)
\* the index range of an edge: the least and the greatest of the indices of
\* its two tokens
Ends(e) == {e.start.index, e.end.index}
Lo(e) == CHOOSE m \in Ends(e) : \A n \in Ends(e) : m <= n
Hi(e) == CHOOSE m \in Ends(e) : \A n \in Ends(e) : m >= n
Named(x) == CASE x = "a" -> ea [] x = "b" -> eb [] x = "c" -> ec

Related == cmp # Idle

\* C14: covers(a, b) is a.min < b.min <= b.max < a.max, and covers is
\* transitive and asymmetric over the three edges
C14_CoversStrictOrder ==
    Related =>
       /\ \A x, y \in Names :
             cmp.covers[x, y] <=>
                /\ Lo(Named(x)) < Lo(Named(y))
                /\ Lo(Named(y)) <= Hi(Named(y))
                /\ Hi(Named(y)) < Hi(Named(x))
       /\ \A x, y, z \in Names :
             cmp.covers[x, y] /\ cmp.covers[y, z] => cmp.covers[x, z]
       /\ \A x, y \in Names : cmp.covers[x, y] => ~cmp.covers[y, x]

\* a covers b and b covers c
C14_Witness ==
    Related /\ cmp.covers["a", "b"] /\ cmp.covers["b", "c"]

\* C15: crosses(a, b) = crosses(b, a), crosses(a, a) is false, and
\* crosses(a, b) is a.min < b.min < a.max < b.max or
\* b.min < a.min < b.max < a.max
C15_CrossesSymmetric ==
    Related =>
       \A x, y \in Names :
          /\ cmp.crosses[x, y] = cmp.crosses[y, x]
          /\ ~cmp.crosses[x, x]
          /\ cmp.crosses[x, y] <=>
                \/ /\ Lo(Named(x)) < Lo(Named(y))
                   /\ Lo(Named(y)) < Hi(Named(x))
                   /\ Hi(Named(x)) < Hi(Named(y))
                \/ /\ Lo(Named(y)) < Lo(Named(x))
                   /\ Lo(Named(x)) < Hi(Named(y))
                   /\ Hi(Named(y)) < Hi(Named(x))

\* b crosses a from the right
C15_Witness ==
    Related /\ cmp.crosses["a", "b"] /\ Lo(eb) < Lo(ea)

Intersect(e, f) == Lo(e) <= Hi(f) /\ Lo(f) <= Hi(e)
Contains(e, f) == Lo(e) <= Lo(f) /\ Hi(f) <= Hi(e)

\* C16: overlaps(a, b) is true exactly when the ranges [a.min, a.max] and
\* [b.min, b.max] intersect and neither contains the other
C16_OverlapsExactly ==
    Related =>
       \A x, y \in Names :
          cmp.overlaps[x, y] <=>
             /\ Intersect(Named(x), Named(y))
             /\ ~Contains(Named(x), Named(y))
             /\ ~Contains(Named(y), Named(x))

\* C17: two edges side by side that share an endpoint (a.max = b.min,
\* a.min < a.max, b.min < b.max) do not overlap, in either order
C17_SharedEndpointNoOverlap ==
    Related =>
       \A x, y \in Names :
          (/\ Hi(Named(x)) = Lo(Named(y))
           /\ Lo(Named(x)) < Hi(Named(x))
           /\ Lo(Named(y)) < Hi(Named(y)))
             => ~cmp.overlaps[x, y] /\ ~cmp.overlaps[y, x]

\* C18: covers_semi(a, b) holds exactly when b's range lies inside a's and
\* exactly one of the two boundaries coincides, and at most one of
\* covers(a, b), covers_semi(a, b) and covers_exactly(a, b) holds
C18_CoversSemi ==
    Related =>
       \A x, y \in Names :
          /\ cmp.covers_semi[x, y] <=>
                /\ Contains(Named(x), Named(y))
                /\ (Lo(Named(x)) = Lo(Named(y))) # (Hi(Named(x)) = Hi(Named(y)))
          /\ ~(cmp.covers[x, y] /\ cmp.covers_semi[x, y])
          /\ ~(cmp.covers[x, y] /\ cmp.covers_exactly[x, y])
          /\ ~(cmp.covers_semi[x, y] /\ cmp.covers_exactly[x, y])

\* a covers b aligned on the left, c covers a aligned on the right
C18_Witness ==
    /\ Related
    /\ cmp.covers_semi["a", "b"] /\ Lo(ea) = Lo(eb)
    /\ cmp.covers_semi["c", "a"] /\ Hi(ea) = Hi(ec)
    /\ cmp.covers_exactly["b", "b"] /\ Lo(eb) < Hi(eb)

(***************************************************************************)
(* C19: merge (specification SpecMerge)                                    *)
(***************************************************************************)
\* C19: a call of merge raises nothing; it leaves the tokens list as long
\* as it was, adds to each of the first min(len, len) tokens the properties
\* of the token of nlp at the same position, and appends, for every edge of
\* nlp whose two indices are in token_map, an edge between the tokens of
\* this instance at those indices with the label, type, render type and
\* note of the original, and nothing for the other edges of nlp
C19_MergeCompletes ==
    [][last'.op = "merge" =>
         LET nlp == last'.nlp
             n == min(Len(inst.tokens), Len(nlp.tokens))
             Present(e) == /\ e.start.index \in DOMAIN inst.token_map
                           /\ e.end.index \in DOMAIN inst.token_map
             readded == SelectSeq(nlp.edges, Present)
         IN /\ last'.raised = NoError
            /\ Len(inst'.tokens) = Len(inst.tokens)
            /\ \A i \in DOMAIN inst.tokens :
                  inst'.tokens[i].properties =
                     IF i <= n
                     THEN inst.tokens[i].properties
                             \cup nlp.tokens[i].properties
                     ELSE inst.tokens[i].properties
            /\ Len(inst'.edges) = Len(inst.edges) + Len(readded)
            /\ \A k \in DOMAIN readded :
                  LET e == inst'.edges[Len(inst.edges) + k]
                      o == readded[k]
                  IN /\ e.start = inst'.token_map[o.start.index]
                     /\ e.end = inst'.token_map[o.end.index]
                     /\ e.label = o.label
                     /\ e.edge_type = o.edge_type
                     /\ e.render_type = o.render_type
                     /\ e.note = o.note]_vars

(***************************************************************************)
(* C20: the levels of the dependency layout (specification SpecLayout)     *)
(***************************************************************************)
SingleRendered == layout # Idle /\ layout.renderer = "single"
Levels == layout.dependencies.levels

\* C20: no two edges a and b of which overlaps(a, b) is true are given the
\* same level
C20_NoOverlapOnALevel ==
    SingleRendered =>
       \A a, b \in DOMAIN Levels :
          a # b /\ overlaps(a, b) => Levels[a] # Levels[b]

\* three arcs are laid out on two levels: two that overlap, and two that do
\* not and share a level
C20_Witness ==
    /\ SingleRendered
    /\ Cardinality(DOMAIN Levels) = 3
    /\ \E a, b \in DOMAIN Levels : a # b /\ overlaps(a, b)
    /\ \E a, b \in DOMAIN Levels : a # b /\ Levels[a] = Levels[b]

(***************************************************************************)
(* C21-C22: the renderers (specification SpecLayout)                       *)
(***************************************************************************)
AlignmentRendered == layout # Idle /\ layout.renderer = "alignment"

\* every call named later comes after a call named first
Before(calls, first, later) ==
    \A i \in DOMAIN calls :
       calls[i] = later => \E j \in 1..(i - 1) : calls[j] = first

\* C21: SingleSentenceRenderer.render estimates the span widths, estimates
\* the token bounds, lays out the dependencies, the tokens and, only when
\* render_spans is true, the spans, in this order; AlignmentRenderer.render
\* has estimated the token bounds of both rows before it adds an arc to the
\* scene
C21_BoundsBeforeLayout ==
    /\ SingleRendered =>
          /\ SubSeq(layout.calls, 1, 4) =
                <<"span_layout.estimate_required_token_widths",
                  "token_layout.estimate_token_bounds",
                  "dependency_layout.layout_edges",
                  "token_layout.layout">>
          /\ layout.render_spans =>
                layout.calls[5] = "span_layout.layout_edges"
          /\ Len(layout.calls) = IF layout.render_spans THEN 5 ELSE 4
          /\ \A later \in {"dependency_layout.layout_edges",
                           "token_layout.layout", "span_layout.layout_edges"} :
                Before(layout.calls, "token_layout.estimate_token_bounds", later)
    /\ AlignmentRendered =>
          /\ Before(layout.calls, "token_layout1.estimate_token_bounds",
                    "scene.add")
          /\ Before(layout.calls, "token_layout2.estimate_token_bounds",
                    "scene.add")

\* an instance with arcs and spans is rendered as a single sentence, spans
\* included
C21_Witness ==
    /\ SingleRendered
    /\ layout.render_spans
    /\ layout.spans # {}
    /\ DOMAIN Levels # {}

IsArc(item) == item.kind \in {"QuadraticBezierCurve", "Line"}

\* the colour of the diff status that the type of an edge ends in
StatusColour(edge) ==
    IF EndsWith(edge.edge_type, FP) THEN fp_color
    ELSE IF EndsWith(edge.edge_type, FN) THEN fn_color
    ELSE match_color

\* C22: AlignmentRenderer.render raises nothing and adds to the scene, for
\* each edge of render type dependency, one curve (one line when not
\* curved) in the colour of the diff status its type ends in
C22_OneColouredArcPerEdge ==
    AlignmentRendered =>
       LET arcs == SelectSeq(layout.scene, IsArc)
       IN /\ layout.raised = NoError
          /\ Len(arcs) = Len(layout.edges)
          /\ \A i \in DOMAIN arcs :
                /\ arcs[i].kind = IF layout.is_curved
                                  THEN "QuadraticBezierCurve" ELSE "Line"
                /\ arcs[i].color = StatusColour(layout.edges[i])

(***************************************************************************)
(* C28-C29: the bands and the size of a rendering (specification           *)
(* SpecLayout)                                                             *)
(***************************************************************************)
\* C28: SingleSentenceRenderer.render lays the tokens out at the height of
\* the dependencies and, when render_spans is true, the spans at the height
\* of the dependencies plus that of the tokens; it returns as height the
\* heights of the dependencies, the tokens and the spans (0 when
\* render_spans is false) plus 1, and as width the largest of the width of
\* the dependencies, the width of the tokens and the estimated width
C28_Bands ==
    SingleRendered =>
       LET d_height == layout.dependencies.height
           t_height == layout.sizes.t_height
           s_height == IF layout.render_spans THEN layout.sizes.s_height ELSE 0
           widths == {layout.sizes.d_width, layout.sizes.t_width,
                      layout.sizes.token_max_width}
       IN /\ layout.origins["token_layout.layout"] = <<0, d_height>>
          /\ layout.render_spans <=>
                "span_layout.layout_edges" \in DOMAIN layout.origins
          /\ layout.render_spans =>
                layout.origins["span_layout.layout_edges"] =
                   <<0, d_height + t_height>>
          /\ layout.ret.height = d_height + t_height + s_height + 1
          /\ layout.ret.width \in widths
          /\ \A w \in widths : layout.ret.width >= w

\* arcs on two levels, tokens and spans are rendered, and the estimated
\* width is the largest
C28_Witness ==
    /\ SingleRendered
    /\ layout.render_spans
    /\ layout.dependencies.max_level_used = 2
    /\ layout.sizes.t_height > 0 /\ layout.sizes.s_height > 0
    /\ layout.ret.width = layout.sizes.token_max_width
    /\ layout.ret.width > layout.sizes.t_width

IsTranslate(item) == item.kind = "translate"

\* C29: AlignmentRenderer.render returns; every arc of the scene starts at
\* the height h1 of the first row and ends at h1 + height_factor; there is
\* one arc per dependency edge; the scene is translated once, after all
\* arcs, by h1 + height_factor; the height returned is
\* h1 + height_factor + h2 + 1 and the width the larger of the rows' widths
C29_ArcsBetweenRows ==
    AlignmentRendered =>
       LET h1 == layout.dim1[2]
           h2 == layout.dim2[2]
           n == Len(layout.scene)
       IN /\ layout.raised = NoError
          /\ Len(SelectSeq(layout.scene, IsArc)) = Len(layout.edges)
          /\ \A i \in DOMAIN layout.scene :
                IsArc(layout.scene[i]) =>
                   /\ layout.scene[i].start[2] = h1
                   /\ layout.scene[i].end[2] = h1 + HeightFactor
          /\ Len(SelectSeq(layout.scene, IsTranslate)) = 1
          /\ n > 0 /\ IsTranslate(layout.scene[n])
          /\ layout.scene[n].dx = 0 /\ layout.scene[n].dy = h1 + HeightFactor
          /\ layout.ret.height = h1 + HeightFactor + h2 + 1
          /\ layout.ret.width = max(layout.dim1[1], layout.dim2[1])

(***************************************************************************)
(* C25-C26: overlaps and crosses (specification SpecRel)                   *)
(***************************************************************************)
\* C25: overlaps holds of two edges in one order exactly when it holds in
\* the other
C25_OverlapsSymmetric ==
    Related =>
       \A x, y \in Names : cmp.overlaps[x, y] = cmp.overlaps[y, x]

\* C26: for all edges a and b, taken in either order, crosses(a, b) implies
\* overlaps(a, b)
C26_CrossingOverlaps ==
    Related =>
       \A x, y \in Names :
          cmp.crosses[x, y] => cmp.overlaps[x, y]

(***************************************************************************)
(* C27: the render types of the stored edges (specification Spec)          *)
(***************************************************************************)
\* C27: every edge of the instance has render type span or dependency, and
\* get_edges(span) and get_edges(dependency) are disjoint and together hold
\* every edge of get_edges()
C27_SpanOrDependency ==
    LET spans == get_edges(inst, EdgeRenderType_span)
        dependencies == get_edges(inst, EdgeRenderType_dependency)
    IN /\ \A i \in DOMAIN inst.edges :
             inst.edges[i].render_type
                \in {EdgeRenderType_span, EdgeRenderType_dependency}
       /\ spans \cap dependencies = {}
       /\ get_edges(inst, NoRenderType) \subseteq spans \cup dependencies

(***************************************************************************)
(* C30: the types of the edges of a diff (specification SpecType)          *)
(***************************************************************************)
HasColon(edge_type) == \E i \in DOMAIN edge_type : edge_type[i] = ":"

\* r is o re-typed with the suffix, with o's prefix and, when o's type has
\* no colon, the suffix without its colon as postfix
TypedFrom(r, o, suffix) ==
    /\ Retyped(r, o, suffix)
    /\ get_type_prefix(r) = get_type_prefix(o)
    /\ ~HasColon(o.edge_type) => get_type_postfix(r) = Tail(suffix)

Reproduced(e) ==
    HasColon(e.edge_type) =>
       get_type_prefix(e) \o <<":">> \o get_type_postfix(e) = e.edge_type

\* C30: every edge of gold or guess has an edge in the diff whose type is
\* its type followed by the suffix of its category, whose prefix is its
\* prefix and whose postfix is, when its type has no colon, "FN", "FP" or
\* "Match" by its category; every edge of the diff is such an edge; and of
\* every type with a colon the prefix, ":" and the postfix make up the type
C30_TypeSuffix ==
    Returned =>
       LET result == Range(diff.ret.edges)
       IN /\ \A o \in diff.fn : \E r \in result : TypedFrom(r, o, FN)
          /\ \A o \in diff.fp : \E r \in result : TypedFrom(r, o, FP)
          /\ \A o \in diff.matches : \E r \in result : TypedFrom(r, o, MATCH)
          /\ \A r \in result :
                \/ \E o \in diff.fn : TypedFrom(r, o, FN)
                \/ \E o \in diff.fp : TypedFrom(r, o, FP)
                \/ \E o \in diff.matches : TypedFrom(r, o, MATCH)
          /\ \A e \in result \cup Range(gold.edges) \cup Range(guess.edges) :
                Reproduced(e)

\* a diff of a gold edge whose type has a colon inside and a guess edge
\* whose type has none
C30_Witness ==
    /\ Returned
    /\ \E o \in diff.fn :
          /\ HasColon(o.edge_type)
          /\ get_type_prefix(o) # <<>>
          /\ get_type_postfix(o) # <<>>
    /\ \E o \in diff.fp : ~HasColon(o.edge_type)
    /\ Len(diff.ret.edges) = 2

(***************************************************************************)
(* C23: the handlers of DependencyFilterPanel (specification SpecPanel)    *)
(***************************************************************************)
\* the pieces of a text between its commas
Pieces(text) ==
    {SubSeq(text, b[1], b[2]) :
        b \in {c \in (1..(Len(text) + 1)) \X (0..Len(text)) :
                  /\ c[1] <= c[2] + 1
                  /\ c[1] = 1 \/ text[c[1] - 1] = ","
                  /\ c[2] = Len(text) \/ text[c[2] + 1] = ","
                  /\ \A k \in c[1]..c[2] : text[k] # ","}}

\* the filters an edit asks for, from the filters before it
Edited(before, handler, text, value) ==
    CASE handler = "labelFieldChanged" ->
            [before EXCEPT !.edgeLabelFilter.allowed_labels = Pieces(text)]
      [] handler = "tokenTextFieldChanged" ->
            [before EXCEPT !.edgeTokenFilter.allowed_properties = Pieces(text)]
      [] handler = "usePathAction" ->
            [before EXCEPT !.edgeTokenFilter.usePath = (value = 2)]
      [] handler = "collapseAction" ->
            [before EXCEPT !.edgeTokenFilter.collaps = (value = 2)]
      [] handler = "wholeWordsAction" ->
            [before EXCEPT !.edgeTokenFilter.whole_words = (value = 2)]

IsUpdate(made) == made.call = "nlpCanvas.update_nlp_graphics"

\* C23: a handler of the panel leaves the filters as its edit asks, makes
\* one call of update_nlp_graphics, as the last thing it does, and the
\* canvas is updated with the filters as the handler leaves them
C23_FilterThenUpdate ==
    [][LET calls == panel'.calls
           n == Len(calls)
       IN /\ Filters(panel') =
                Edited(Filters(panel), panel'.handler, panel'.text,
                       panel'.value)
          /\ Len(SelectSeq(calls, IsUpdate)) = 1
          /\ n >= 1 /\ IsUpdate(calls[n])
          /\ panel'.nlpCanvas = Filters(panel')]_vars

\* the label field is edited to two labels after other labels, token
\* properties and the use of paths had been set
C23_Witness ==
    /\ panel.handler = "labelFieldChanged"
    /\ panel.text = <<"B", ",", "A", ",", "B">>
    /\ panel.edgeLabelFilter.allowed_labels = {<<"A">>, <<"B">>}
    /\ Len(panel.calls) = 5
    /\ panel.edgeTokenFilter.allowed_properties = {<<>>, <<"A">>}
    /\ panel.edgeTokenFilter.usePath

(***************************************************************************)
(* C24: what update_canvas hands to the canvas (specification              *)
(* SpecNavigator)                                                          *)
(***************************************************************************)
\* the instances nlp_diff can return for two instances
Diffs(gold_instance, guess_instance) ==
    LET goldIdentities == get_edges(gold_instance, NoRenderType)
        guessIdentities == get_edges(guess_instance, NoRenderType)
    IN {nlp_diff(gold_instance, guess_instance, fn_order, fp_order,
                 match_order).ret :
           fn_order \in Orders(set_difference(goldIdentities, guessIdentities)),
           fp_order \in Orders(set_difference(guessIdentities, goldIdentities)),
           match_order \in Orders(set_intersection(goldIdentities,
                                                   guessIdentities))}

\* C24: a call of update_canvas with a gold corpus loaded, the constructor's
\* included, raises nothing, hands one instance to the canvas and asks for
\* the graphics to be updated; the instance is gold[i] for the spinner's
\* value i + 1 when no guess corpus is loaded, and a diff of gold[i] and
\* guess[i] when one is
C24_CanvasGetsCurrentInstance ==
    (navigator.op \in {"__init__", "update_canvas"} /\ navigator.gold.loaded)
       => LET i == navigator.spinner.value
          IN /\ navigator.raised = NoError
             /\ navigator.updated
             /\ Len(navigator.handed) = 1
             /\ IF navigator.guess.loaded
                THEN navigator.handed[1]
                        \in Diffs(navigator.gold.corpora[i],
                                  navigator.guess.corpora[i])
                ELSE navigator.handed[1] = navigator.gold.corpora[i]
             /\ navigator.canvas.instance = navigator.handed[1]

====
